---- MODULE Spec2Model ----
(***************************************************************************)
(* Model of the client-side data service (services/db): the module-level   *)
(* IndexedDB handle, the `videos` object store with its transactions, the  *)
(* localStorage keys, and the asynchronous flows (initDB, getVideos, the   *)
(* batch operations) that run against them.                               *)
(*                                                                         *)
(* One action is one event-loop task: a call from the UI up to its first   *)
(* wait on an IndexedDB event, or the delivery of one IndexedDB event      *)
(* (open success, request success/error, transaction complete/abort)      *)
(* together with the handler and the promise continuations it triggers.    *)
(* `await openDB()` with the handle already set resumes in a microtask of  *)
(* the same task, so it does not end an action.                            *)
(***************************************************************************)
EXTENDS Integers, Sequences, FiniteSets, TLC

----------------------------------------------------------------------------
(* Bounds of the model *)

MaxBatch == 3      \* longest videoIds list passed to a batch operation
MaxCalls == 1      \* calls each flow makes, one after the other
MaxFaults == 1     \* storage failures injected in one behaviour
MaxLegacy == 2     \* longest legacy video list under VIDEOS_KEY
MaxInitRuns == 2   \* startup initializations run one after the other
MaxOps == 3        \* synchronous localStorage operations in one behaviour

----------------------------------------------------------------------------
(* Data *)

Ids == 1 .. 3                       \* video ids (keyPath 'id'), in key order
\* App effect, AdminDashboard, VideoProvider, the student's event handlers,
\* and the dashboard of a second admin session
Procs == {"app", "app2", "admin", "viewer", "student", "admin2"}
NoUser == "none"
UserIds == {"u1"}
Statuses == {"published", "draft"}

NoRec == [id |-> 0, src |-> "none", status |-> "none", tags |-> {}, uploadedAt |-> 0]

Video(i, s, st, tg, at) ==
    [id |-> i, src |-> s, status |-> st, tags |-> tg, uploadedAt |-> at]

\* The fixed initial dataset (services/initialData): two published videos
\* with distinct ids, and the seed users.
initialVideos == << Video(1, "initial", "published", {}, 2),
                    Video(2, "initial", "published", {}, 1) >>
initialUsers ==
    << [id |-> "u1", email |-> "student@x", type |-> "student", password |-> "pw1"] >>

\* A catalog left by earlier sessions: v1 and v2 exist, v3 does not.
SessionCatalog == { Video(1, "user", "draft", {}, 2),
                    Video(2, "user", "published", {"t1"}, 2) }

Keys(cat) == {x.id : x \in cat}

\* Date.now() readings.
Clock == {1, 2}

\* `video_${Date.now()}`: generated ids, after the seed ids in key order.
VideoIdAt(now) == 3 + now

\* videoData of addVideo (Omit<Video, 'id'>) as the upload form builds it:
\* status 'draft', no tags, uploadedAt the time of the upload; the type
\* also admits the optional `completed`.
VideoInputs ==
    {[src |-> "user", status |-> "draft", tags |-> {}, uploadedAt |-> 3],
     [src |-> "user", status |-> "draft", tags |-> {}, uploadedAt |-> 3,
      completed |-> TRUE]}

\* { ...videoData, id }
WithId(videoData, i) ==
    IF "completed" \in DOMAIN videoData
    THEN [id |-> i, src |-> videoData.src, status |-> videoData.status,
          tags |-> videoData.tags, uploadedAt |-> videoData.uploadedAt,
          completed |-> videoData.completed]
    ELSE Video(i, videoData.src, videoData.status, videoData.tags,
               videoData.uploadedAt)

\* localStorage values: what getItem returns and how JSON.parse sees it.
Absent == [kind |-> "absent", val |-> <<>>]      \* getItem -> null
EmptyStr == [kind |-> "empty", val |-> <<>>]     \* getItem -> "" (falsy)
BadText == [kind |-> "text", val |-> <<>>]       \* JSON.parse throws
NonList == [kind |-> "json", val |-> <<>>]       \* parses, not an array
List(s) == [kind |-> "list", val |-> s]          \* parses to the array s
Map(m) == [kind |-> "map", val |-> m]            \* parses to the plain object m

Truthy(item) == item.kind \notin {"absent", "empty"}

----------------------------------------------------------------------------
(* Object store operations (IDBObjectStore on keyPath 'id') *)

StorePut(cat, r) == {x \in cat : x.id # r.id} \cup {r}
StoreDelete(cat, k) == {x \in cat : x.id # k}
StoreCount(cat) == Cardinality(cat)

RECURSIVE StoreGetAll(_)
StoreGetAll(cat) ==
    IF cat = {} THEN <<>>
    ELSE LET lo == CHOOSE x \in cat : \A y \in cat : x.id <= y.id
         IN <<lo>> \o StoreGetAll(cat \ {lo})

\* A mutant of InsertDesc: a record goes before the records of its own
\* timestamp, as an unstable sort may leave it.
RECURSIVE InsertDescUnstable(_, _)
InsertDescUnstable(sorted, r) ==
    IF sorted = <<>> THEN <<r>>
    ELSE IF Head(sorted).uploadedAt > r.uploadedAt
         THEN <<Head(sorted)>> \o InsertDescUnstable(Tail(sorted), r)
         ELSE <<r>> \o sorted

\* Array.prototype.sort with comparator b.uploadedAt - a.uploadedAt: stable.
RECURSIVE InsertDesc(_, _)
InsertDesc(sorted, r) ==
    IF sorted = <<>> THEN <<r>>
    ELSE IF Head(sorted).uploadedAt >= r.uploadedAt
         THEN <<Head(sorted)>> \o InsertDesc(Tail(sorted), r)
         ELSE <<r>> \o sorted

RECURSIVE SortByUploadedAtDesc(_)
SortByUploadedAtDesc(s) ==
    IF s = <<>> THEN <<>>
    ELSE InsertDesc(SortByUploadedAtDesc(SubSeq(s, 1, Len(s) - 1)), s[Len(s)])

Range(s) == {s[i] : i \in DOMAIN s}

----------------------------------------------------------------------------
VARIABLES
    db,        \* module-level `let db`: 0 = unset, n = the n-th connection
    openQ,     \* flows whose indexedDB.open request is pending, oldest first
    nOpens,    \* indexedDB.open calls made so far
    store,     \* committed contents of the `videos` object store
    txs,       \* live transactions in creation order
    ls,        \* localStorage
    procs,     \* the asynchronous flows
    faults,    \* storage failures injected so far
    legal      \* catalogs reachable by whole operations only (history)

vars == <<db, openQ, nOpens, store, txs, ls, procs, faults, legal>>

----------------------------------------------------------------------------
(* Transactions and requests *)

Req(kind, key, rec) == [kind |-> kind, key |-> key, rec |-> rec]

\* A transaction on VIDEO_STORE_NAME created by call `call` of flow `owner`.
\* `work` holds the transaction's own uncommitted writes once `dirty`.
Tx(owner, call, tag, mode, reqs) ==
    [owner |-> owner, call |-> call, tag |-> tag, mode |-> mode,
     reqs |-> reqs, work |-> {}, dirty |-> FALSE]

\* What a request of transaction t reads.
View(t) == IF t.dirty THEN t.work ELSE store

\* Transaction scheduling: all transactions have the same scope, so one runs
\* only when every transaction created before it is finished, except that
\* read-only transactions run side by side.
Runnable(i) == \A j \in 1 .. (i - 1) : txs[j].mode = "ro" /\ txs[i].mode = "ro"

Ready(i) == Runnable(i) /\ txs[i].reqs # <<>>
HeadReq(i) == Head(txs[i].reqs)

\* The effect of the request at the head of t on what t sees.
ApplyReq(q, cat) ==
    CASE q.kind = "put" -> StorePut(cat, q.rec)
      [] q.kind = "add" -> StorePut(cat, q.rec)
      [] q.kind = "delete" -> StoreDelete(cat, q.key)
      [] q.kind = "clear" -> {}
      [] OTHER -> cat

IsWrite(q) == q.kind \in {"put", "add", "delete", "clear"}

\* add() on a key that is present fails with ConstraintError.
Fails(q, cat) == q.kind = "add" /\ q.rec.id \in Keys(cat)

Executed(t) ==
    LET q == Head(t.reqs)
    IN [t EXCEPT !.reqs = Tail(@),
                 !.work = IF IsWrite(q) THEN ApplyReq(q, View(t)) ELSE @,
                 !.dirty = @ \/ IsWrite(q)]

RECURSIVE ApplyAll(_, _)
ApplyAll(reqs, cat) ==
    IF reqs = <<>> THEN cat ELSE ApplyAll(Tail(reqs), ApplyReq(Head(reqs), cat))

\* The catalog once the transactions ts, run in order on cat, have committed:
\* what a read issued now returns (history only).
RECURSIVE Settled(_, _)
Settled(cat, ts) ==
    IF ts = <<>> THEN cat
    ELSE Settled(ApplyAll(Head(ts).reqs,
                          IF Head(ts).dirty THEN Head(ts).work ELSE cat), Tail(ts))

RemoveAt(s, i) == SubSeq(s, 1, i - 1) \o SubSeq(s, i + 1, Len(s))

Live(p, call, tag) ==
    \E i \in DOMAIN txs : txs[i].owner = p /\ txs[i].call = call /\ txs[i].tag = tag

\* Transaction i belongs to the call flow p is in now.
Mine(i, p, tag) ==
    txs[i].owner = p /\ txs[i].call = procs[p].calls /\ txs[i].tag = tag

\* A request can be placed on a transaction only while it is active: in the
\* task that created it, or in a callback of one of its own requests.
\* `target` is the tag of the transaction the request is placed on and
\* `dispatching` the tag of the transaction whose request callback is running.
CanPlaceRequest(p, target, dispatching) ==
    Live(p, procs[p].calls, target) /\ target = dispatching

----------------------------------------------------------------------------
(* Flows *)

\* The frame of a flow: the operation it is in (op, pc and the arguments),
\* its outcome (out, err, val) and, for the properties, the situation at the
\* call (pre, keyPre, lsPre, quiet, early, overlap).
IdleProc ==
    [op |-> "none", pc |-> "idle", calls |-> 0, ids |-> <<>>,
     status |-> "none", newTags |-> <<>>, user |-> NoUser,
     out |-> "none", err |-> "", val |-> <<>>, conn |-> 0, pending |-> 0,
     branch |-> "none",
     pre |-> {}, keyPre |-> Absent, quiet |-> TRUE, early |-> FALSE,
     overlap |-> FALSE,
     txAborted |-> FALSE,
     arg |-> <<>>, lsPre |-> <<>>, queued |-> <<>>, thrown |-> <<>>]

CanCall(p) == procs[p].out # "pending" /\ procs[p].calls < MaxCalls

InitDone == procs["app"].op = "initDB" /\ procs["app"].out # "pending"

\* The frame of a new call of `op` by flow p; pre, keyPre, quiet, early and
\* overlap record the situation at the call for the properties below.
NewCall(p, op) ==
    [IdleProc EXCEPT !.op = op, !.pc = "run", !.calls = procs[p].calls + 1,
                     !.out = "pending", !.pre = Settled(store, txs),
                     !.keyPre = ls.videos,
                     !.quiet = (txs = <<>>),
                     !.early = ~InitDone,
                     !.overlap = \E i \in DOMAIN txs : txs[i].mode = "rw"]

Resolve(pr, v) == [pr EXCEPT !.pc = "done", !.out = "resolved", !.val = v]
Reject(pr, e) == [pr EXCEPT !.pc = "done", !.out = "rejected", !.err = e]

----------------------------------------------------------------------------
(* localStorage helpers *)

\* getFromStorage: the parsed value, or defaultValue when the item is falsy
\* or does not parse.
GetFromStorage(item, defaultValue) ==
    IF item.kind \in {"absent", "empty", "text"} THEN defaultValue ELSE item

IsArray(v) == v.kind = "list"

----------------------------------------------------------------------------
(* openDB, and what each operation does in the task in which its
   `await openDB()` resumes *)

\* getRawVideos: a readonly transaction with one getAll request.
GetVideosBody(p, pr) ==
    /\ txs' = Append(txs, Tx(p, pr.calls, "read", "ro", <<Req("getAll", 0, NoRec)>>))
    /\ procs' = [procs EXCEPT ![p] = [pr EXCEPT !.pc = "await_getAll"]]
    /\ ls' = ls

\* A mutant of DeleteMultipleTxs: one transaction per id, as a loop over
\* deleteVideo would make.
DeleteMultipleTxsPerId(p, pr) ==
    [k \in 1 .. Len(pr.ids) |->
        Tx(p, pr.calls, "batch", "rw", <<Req("delete", pr.ids[k], NoRec)>>)]

\* deleteMultipleVideos: one readwrite transaction, one delete request per id.
DeleteMultipleTxs(p, pr) ==
    << Tx(p, pr.calls, "batch", "rw",
          [k \in 1 .. Len(pr.ids) |-> Req("delete", pr.ids[k], NoRec)]) >>

DeleteMultipleBody(p, pr) ==
    /\ txs' = txs \o DeleteMultipleTxs(p, pr)
    /\ procs' = [procs EXCEPT ![p] =
                    IF pr.ids = <<>> THEN Resolve(pr, <<>>)  \* Promise.all([])
                    ELSE [pr EXCEPT !.pc = "await_all", !.pending = Len(pr.ids)]]
    /\ ls' = ls

\* updateMultipleVideosStatus / addTagsToMultipleVideos up to
\* `await getRawVideos()`: the readwrite transaction is created first and is
\* left without a request; getRawVideos then opens its own readonly one.
UpdateMultipleBody(p, pr) ==
    /\ txs' = txs \o << Tx(p, pr.calls, "batch", "rw", <<>>),
                        Tx(p, pr.calls, "read", "ro", <<Req("getAll", 0, NoRec)>>) >>
    /\ procs' = [procs EXCEPT ![p] = [pr EXCEPT !.pc = "await_getRaw"]]
    /\ ls' = ls

CountTx(p, pr, tag) == Tx(p, pr.calls, tag, "ro", <<Req("count", 0, NoRec)>>)


\* A mutant of InitUsers: the legacy video key is initialised like the user
\* key, as before the move to IndexedDB.
InitUsersAndVideos(l) ==
    [l EXCEPT !.users = IF Truthy(@) THEN @ ELSE List(initialUsers),
              !.videos = IF Truthy(@) THEN @ ELSE List(initialVideos)]

\* if (!localStorage.getItem(USERS_KEY)) saveToStorage(USERS_KEY, initialUsers)
InitUsers(l) == [l EXCEPT !.users = IF Truthy(@) THEN @ ELSE List(initialUsers)]

\* initDB after `await openDB()`: the user table, then the first count.
InitDBBody(p, pr) ==
    /\ ls' = InitUsers(ls)
    /\ txs' = Append(txs, CountTx(p, pr, "count"))
    /\ procs' = [procs EXCEPT ![p] = [pr EXCEPT !.pc = "await_count"]]

\* addVideo after `await openDB()`: the id is generated and a readwrite
\* transaction adds the new record.
AddVideoBody(p, pr) ==
    LET newVideo == WithId(pr.arg.videoData, VideoIdAt(pr.arg.now))
    IN /\ txs' = Append(txs, Tx(p, pr.calls, "add", "rw",
                                <<Req("add", newVideo.id, newVideo)>>))
       /\ procs' = [procs EXCEPT ![p] = [pr EXCEPT !.pc = "await_add"]]
       /\ ls' = ls

\* updateVideo after `await openDB()`: a readwrite transaction reads the
\* record.
UpdateVideoBody(p, pr) ==
    /\ txs' = Append(txs, Tx(p, pr.calls, "update", "rw",
                             <<Req("get", pr.arg.videoId, NoRec)>>))
    /\ procs' = [procs EXCEPT ![p] = [pr EXCEPT !.pc = "await_get"]]
    /\ ls' = ls

\* A mutant of DeleteVideoBody: a cascading delete, which also takes the id
\* out of every user's completion list.
DeleteVideoBodyCascade(p, pr) ==
    /\ txs' = Append(txs, Tx(p, pr.calls, "delete", "rw",
                             <<Req("delete", pr.ids[1], NoRec)>>))
    /\ procs' = [procs EXCEPT ![p] = [pr EXCEPT !.pc = "await_delete"]]
    /\ ls' = [ls EXCEPT !.completions =
                [u \in DOMAIN @ |->
                    IF @[u].kind = "list"
                    THEN [@[u] EXCEPT !.val = SelectSeq(@, LAMBDA id : id # pr.ids[1])]
                    ELSE @[u]]]

\* deleteVideo after `await openDB()`: a readwrite transaction with one
\* delete request; no localStorage key is touched.
DeleteVideoBody(p, pr) ==
    /\ txs' = Append(txs, Tx(p, pr.calls, "delete", "rw",
                             <<Req("delete", pr.ids[1], NoRec)>>))
    /\ procs' = [procs EXCEPT ![p] = [pr EXCEPT !.pc = "await_delete"]]
    /\ ls' = ls

\* A mutant of ResetAdds: the store is cleared and not reseeded.
ResetAddsNone == <<>>

\* initialVideos.forEach(video => store.add(video))
ResetAdds ==
    [k \in DOMAIN initialVideos |->
        Req("add", initialVideos[k].id, initialVideos[k])]

\* resetVideos after `await openDB()`: a readwrite transaction with the
\* clear request.
ResetVideosBody(p, pr) ==
    /\ txs' = Append(txs, Tx(p, pr.calls, "batch", "rw",
                             <<Req("clear", 0, NoRec)>>))
    /\ procs' = [procs EXCEPT ![p] = [pr EXCEPT !.pc = "await_clear"]]
    /\ ls' = ls

\* The continuation of `await openDB()` in the operation of frame pr.
Resume(p, pr) ==
    CASE pr.op = "getVideos" -> GetVideosBody(p, pr)
      [] pr.op = "deleteMultipleVideos" -> DeleteMultipleBody(p, pr)
      [] pr.op \in {"updateMultipleVideosStatus", "addTagsToMultipleVideos"} ->
            UpdateMultipleBody(p, pr)
      [] pr.op = "initDB" -> InitDBBody(p, pr)
      [] pr.op = "addVideo" -> AddVideoBody(p, pr)
      [] pr.op = "updateVideo" -> UpdateVideoBody(p, pr)
      [] pr.op = "deleteVideo" -> DeleteVideoBody(p, pr)
      [] pr.op = "resetVideos" -> ResetVideosBody(p, pr)

\* openDB as called at the head of every operation: with db set the promise
\* is already resolved and the operation goes on in this task; otherwise a
\* new indexedDB.open request is made, whatever requests are already pending.
openDB(p, pr) ==
    IF db # 0
    THEN /\ Resume(p, [pr EXCEPT !.conn = db])
         /\ UNCHANGED <<db, openQ, nOpens>>
    ELSE /\ procs' = [procs EXCEPT ![p] = [pr EXCEPT !.pc = "opening"]]
         /\ openQ' = Append(openQ, [p |-> p, n |-> nOpens + 1])
         /\ nOpens' = nOpens + 1
         /\ UNCHANGED <<db, txs, ls>>

----------------------------------------------------------------------------
(* getVideos / getRawVideos *)

WithCompleted(r, c) ==
    [id |-> r.id, src |-> r.src, status |-> r.status, tags |-> r.tags,
     uploadedAt |-> r.uploadedAt, completed |-> c]

Strip(r) == Video(r.id, r.src, r.status, r.tags, r.uploadedAt)

GetVideos(p, u) ==
    /\ CanCall(p)
    /\ openDB(p, [NewCall(p, "getVideos") EXCEPT !.user = u])
    /\ UNCHANGED <<store, faults, legal>>

\* request.onsuccess of getRawVideos, then the rest of getVideos.
GetVideosOnSuccess(p) ==
    \E i \in DOMAIN txs :
        /\ Ready(i) /\ Mine(i, p, "read") /\ HeadReq(i).kind = "getAll"
        /\ procs[p].op = "getVideos" /\ procs[p].pc = "await_getAll"
        /\ LET allVideos == SortByUploadedAtDesc(StoreGetAll(View(txs[i])))
               u == procs[p].user
               got == GetFromStorage(ls.completions[u], List(<<>>))
               completedVideoIds == IF IsArray(got) THEN got.val ELSE <<>>
           IN IF u = NoUser
              THEN /\ procs' = [procs EXCEPT ![p] = Resolve(@, allVideos)]
                   /\ ls' = ls
              ELSE /\ procs' = [procs EXCEPT ![p] = Resolve(@,
                         [k \in DOMAIN allVideos |->
                            WithCompleted(allVideos[k],
                               allVideos[k].id \in Range(completedVideoIds))])]
                   /\ ls' = IF IsArray(got) THEN ls
                            ELSE [ls EXCEPT !.completions[u] = List(<<>>)]
        /\ txs' = [txs EXCEPT ![i] = Executed(@)]
        /\ UNCHANGED <<db, openQ, nOpens, store, faults, legal>>

\* request.onerror of getRawVideos: getVideos rejects.
GetVideosOnError(p) ==
    \E i \in DOMAIN txs :
        /\ Ready(i) /\ Mine(i, p, "read") /\ HeadReq(i).kind = "getAll"
        /\ procs[p].op = "getVideos" /\ procs[p].pc = "await_getAll"
        /\ faults < MaxFaults
        /\ faults' = faults + 1
        /\ procs' = [procs EXCEPT ![p] = Reject(@, "RequestError")]
        /\ txs' = RemoveAt(txs, i)
        /\ UNCHANGED <<db, openQ, nOpens, store, ls, legal>>

----------------------------------------------------------------------------
(* Batch operations *)

\* The videoIds lists tried: ids in selection order (ascending here), of
\* length 0 .. MaxBatch.
BatchIds ==
    {s \in UNION {[1 .. n -> Ids] : n \in 0 .. MaxBatch} :
        \A i, j \in DOMAIN s : i < j => s[i] < s[j]}

TagLists == {<<"t1", "t2">>}

\* What the batch of frame pr is meant to do to a catalog, all of it at once
\* (history only: `legal` is closed under it at every batch call).
FullEffect(pr, cat) ==
    CASE pr.op = "deleteMultipleVideos" ->
            {x \in cat : x.id \notin Range(pr.ids)}
      [] pr.op = "updateMultipleVideosStatus" ->
            {IF x.id \in Range(pr.ids) THEN [x EXCEPT !.status = pr.status] ELSE x
                : x \in cat}
      [] pr.op = "addTagsToMultipleVideos" ->
            {IF x.id \in Range(pr.ids)
             THEN [x EXCEPT !.tags = @ \cup Range(pr.newTags)] ELSE x : x \in cat}
      [] OTHER -> cat

LegalAfter(pr) == legal \cup {FullEffect(pr, c) : c \in legal}

DeleteMultipleVideos(p, videoIds) ==
    /\ CanCall(p)
    /\ LET pr == [NewCall(p, "deleteMultipleVideos") EXCEPT !.ids = videoIds]
       IN /\ openDB(p, pr)
          /\ legal' = LegalAfter(pr)
    /\ UNCHANGED <<store, faults>>

\* request.onsuccess of one delete: its promise resolves; the operation
\* resolves with the last one (Promise.all), before the transaction commits.
DeleteOnSuccess(p) ==
    \E i \in DOMAIN txs :
        /\ Ready(i) /\ Mine(i, p, "batch") /\ HeadReq(i).kind = "delete"
        /\ procs[p].op = "deleteMultipleVideos"
        /\ txs' = [txs EXCEPT ![i] = Executed(@)]
        /\ procs' = [procs EXCEPT ![p] =
                        IF @.pc # "await_all" THEN @   \* already rejected
                        ELSE IF @.pending = 1 THEN Resolve(@, <<>>)
                        ELSE [@ EXCEPT !.pending = @ - 1]]
        /\ UNCHANGED <<db, openQ, nOpens, store, ls, faults, legal>>

\* request.onerror of one delete: Promise.all rejects; the error is not
\* prevented, so the transaction aborts and its writes are discarded.
DeleteOnError(p) ==
    \E i \in DOMAIN txs :
        /\ Ready(i) /\ Mine(i, p, "batch") /\ HeadReq(i).kind = "delete"
        /\ procs[p].op = "deleteMultipleVideos" /\ procs[p].pc = "await_all"
        /\ faults < MaxFaults
        /\ faults' = faults + 1
        /\ txs' = RemoveAt(txs, i)
        /\ procs' = [procs EXCEPT ![p] =
                        [Reject(@, "RequestError") EXCEPT !.txAborted = TRUE]]
        /\ UNCHANGED <<db, openQ, nOpens, store, ls, legal>>

UpdateMultipleVideosStatus(p, videoIds, status) ==
    /\ CanCall(p)
    /\ LET pr == [NewCall(p, "updateMultipleVideosStatus")
                    EXCEPT !.ids = videoIds, !.status = status]
       IN /\ openDB(p, pr)
          /\ legal' = LegalAfter(pr)
    /\ UNCHANGED <<store, faults>>

AddTagsToMultipleVideos(p, videoIds, tagsToAdd) ==
    /\ CanCall(p)
    /\ LET pr == [NewCall(p, "addTagsToMultipleVideos")
                    EXCEPT !.ids = videoIds, !.newTags = tagsToAdd]
       IN /\ openDB(p, pr)
          /\ legal' = LegalAfter(pr)
    /\ UNCHANGED <<store, faults>>

\* The record the forEach body puts for a found video.
Mutated(pr, video) ==
    IF pr.op = "updateMultipleVideosStatus"
    THEN [video EXCEPT !.status = pr.status]
    ELSE [video EXCEPT !.tags = @ \cup Range(pr.newTags)]

\* The continuation after `await getRawVideos()`: the forEach over videoIds
\* and the returned promise. store.put on the readwrite transaction throws
\* TransactionInactiveError unless that transaction is active in this task.
UpdateMultipleResume(p) ==
    \E i \in DOMAIN txs :
        /\ Ready(i) /\ Mine(i, p, "read") /\ HeadReq(i).kind = "getAll"
        /\ procs[p].pc = "await_getRaw"
        /\ LET pr == procs[p]
               videos == View(txs[i])
               found == SelectSeq(pr.ids, LAMBDA id : id \in Keys(videos))
               puts == [k \in 1 .. Len(found) |->
                          LET v == CHOOSE x \in videos : x.id = found[k]
                          IN Req("put", v.id, Mutated(pr, v))]
           IN IF found = <<>>
              THEN /\ txs' = [txs EXCEPT ![i] = Executed(@)]
                   /\ procs' = [procs EXCEPT ![p].pc = "await_complete"]
              ELSE IF CanPlaceRequest(p, "batch", "read")
              THEN /\ txs' = [j \in DOMAIN txs |->
                                IF j = i THEN Executed(txs[j])
                                ELSE IF Mine(j, p, "batch")
                                     THEN [txs[j] EXCEPT !.reqs = @ \o puts]
                                     ELSE txs[j]]
                   /\ procs' = [procs EXCEPT ![p].pc = "await_complete"]
              ELSE /\ txs' = [txs EXCEPT ![i] = Executed(@)]
                   /\ procs' = [procs EXCEPT ![p] =
                                   Reject(@, "TransactionInactiveError")]
        /\ UNCHANGED <<db, openQ, nOpens, store, ls, faults, legal>>

\* request.onerror inside getRawVideos: the batch operation rejects.
UpdateMultipleGetRawOnError(p) ==
    \E i \in DOMAIN txs :
        /\ Ready(i) /\ Mine(i, p, "read") /\ HeadReq(i).kind = "getAll"
        /\ procs[p].pc = "await_getRaw"
        /\ faults < MaxFaults
        /\ faults' = faults + 1
        /\ txs' = RemoveAt(txs, i)
        /\ procs' = [procs EXCEPT ![p] = Reject(@, "RequestError")]
        /\ UNCHANGED <<db, openQ, nOpens, store, ls, legal>>

----------------------------------------------------------------------------
(* Transaction completion *)

\* The flow whose transaction.oncomplete is attached to transaction t.
AwaitsComplete(t) ==
    /\ t.call = procs[t.owner].calls
    /\ t.tag = "batch"
    /\ procs[t.owner].pc = "await_complete"

\* A transaction with no request left commits: its writes become the
\* store's contents and `complete` fires.
TxComplete(i) ==
    /\ Runnable(i) /\ txs[i].reqs = <<>>
    /\ store' = View(txs[i])
    /\ txs' = RemoveAt(txs, i)
    /\ procs' = IF AwaitsComplete(txs[i])
                THEN [procs EXCEPT ![txs[i].owner] = Resolve(@, <<>>)]
                ELSE procs
    /\ UNCHANGED <<db, openQ, nOpens, ls, faults, legal>>

\* The commit fails: the writes are discarded and only `abort` fires, which
\* no code listens to (transaction.onerror sees request errors only).
TxAbortOnCommit(i) ==
    /\ Runnable(i) /\ txs[i].reqs = <<>> /\ txs[i].dirty
    /\ faults < MaxFaults
    /\ faults' = faults + 1
    /\ txs' = RemoveAt(txs, i)
    /\ procs' = IF txs[i].call = procs[txs[i].owner].calls
                THEN [procs EXCEPT ![txs[i].owner].txAborted = TRUE]
                ELSE procs
    /\ UNCHANGED <<db, openQ, nOpens, store, ls, legal>>

----------------------------------------------------------------------------
(* initDB and migrateLocalStorageToIndexedDB *)

\* A mutant of MigrateReq: the copy uses add, which fails on a present key.
MigrateReqAdd(video) == Req("add", video.id, video)

\* The request migrate places for one legacy record: store.put(video).
MigrateReq(video) == Req("put", video.id, video)

\* A mutant of SeedNeeded: the comparison never succeeds.
SeedNeededNever(count) == count < 0

\* postMigrationCountReq.result === 0
SeedNeeded(count) == count = 0

\* localStorage.removeItem(VIDEOS_KEY)
RemoveLegacy(l) == [l EXCEPT !.videos = Absent]

InitDB(p) ==
    /\ procs[p].out # "pending" /\ procs[p].calls < MaxInitRuns
    /\ openDB(p, NewCall(p, "initDB"))
    /\ UNCHANGED <<store, faults, legal>>

\* initDB after migrateLocalStorageToIndexedDB has returned: in the empty
\* branch the second count, in the other branch resolve().
AfterMigrate(p, pr, txsNow, lsNow) ==
    /\ ls' = lsNow
    /\ IF pr.branch = "empty"
       THEN /\ txs' = Append(txsNow, CountTx(p, pr, "postcount"))
            /\ procs' = [procs EXCEPT ![p] = [pr EXCEPT !.pc = "await_postcount"]]
       ELSE /\ txs' = txsNow
            /\ procs' = [procs EXCEPT ![p] = Resolve(pr, <<>>)]

\* migrateLocalStorageToIndexedDB up to `await Promise.all(putPromises)`.
\* A falsy item is skipped; text that does not parse throws into the catch
\* block, which only logs; a non-empty array is copied in one readwrite
\* transaction; anything else is removed.
MigrateLocalStorageToIndexedDB(p, pr, txsNow) ==
    LET item == ls.videos
    IN IF ~Truthy(item) \/ item.kind = "text"
       THEN AfterMigrate(p, pr, txsNow, ls)
       ELSE IF IsArray(item) /\ Len(item.val) > 0
       THEN /\ txs' = Append(txsNow,
                        Tx(p, pr.calls, "migrate", "rw",
                           [k \in DOMAIN item.val |-> MigrateReq(item.val[k])]))
            /\ procs' = [procs EXCEPT ![p] =
                            [pr EXCEPT !.pc = "await_puts", !.pending = Len(item.val)]]
            /\ ls' = ls
       ELSE AfterMigrate(p, pr, txsNow, RemoveLegacy(ls))

\* countRequest.onsuccess
InitCountOnSuccess(p) ==
    \E i \in DOMAIN txs :
        /\ Ready(i) /\ Mine(i, p, "count") /\ procs[p].pc = "await_count"
        /\ MigrateLocalStorageToIndexedDB(p,
              [procs[p] EXCEPT !.branch =
                  IF StoreCount(View(txs[i])) = 0 THEN "empty" ELSE "nonempty"],
              [txs EXCEPT ![i] = Executed(@)])
        /\ UNCHANGED <<db, openQ, nOpens, store, faults, legal>>

\* countRequest.onerror: resolve() anyway.
InitCountOnError(p) ==
    \E i \in DOMAIN txs :
        /\ Ready(i) /\ Mine(i, p, "count") /\ procs[p].pc = "await_count"
        /\ faults < MaxFaults
        /\ faults' = faults + 1
        /\ txs' = RemoveAt(txs, i)
        /\ procs' = [procs EXCEPT ![p] = Resolve(@, <<>>)]
        /\ UNCHANGED <<db, openQ, nOpens, store, ls, legal>>

\* request.onsuccess of one migration put; after the last one Promise.all
\* resolves, the legacy key is removed and migrate returns.
MigratePutOnSuccess(p) ==
    \E i \in DOMAIN txs :
        /\ Ready(i) /\ Mine(i, p, "migrate") /\ procs[p].pc = "await_puts"
        /\ ~Fails(HeadReq(i), View(txs[i]))
        /\ IF procs[p].pending = 1
           THEN AfterMigrate(p, procs[p], [txs EXCEPT ![i] = Executed(@)],
                             RemoveLegacy(ls))
           ELSE /\ txs' = [txs EXCEPT ![i] = Executed(@)]
                /\ procs' = [procs EXCEPT ![p].pending = @ - 1]
                /\ ls' = ls
        /\ UNCHANGED <<db, openQ, nOpens, store, faults, legal>>

\* request.onerror of one migration put: Promise.all rejects into the catch
\* block, the key is kept, and the transaction aborts.
MigratePutOnError(p) ==
    \E i \in DOMAIN txs :
        /\ Ready(i) /\ Mine(i, p, "migrate") /\ procs[p].pc = "await_puts"
        /\ Fails(HeadReq(i), View(txs[i])) \/ faults < MaxFaults
        /\ faults' = IF Fails(HeadReq(i), View(txs[i])) THEN faults ELSE faults + 1
        /\ AfterMigrate(p, procs[p], RemoveAt(txs, i), ls)
        /\ UNCHANGED <<db, openQ, nOpens, store, legal>>

\* postMigrationCountReq.onsuccess: seed when still empty, then resolve().
InitPostCountOnSuccess(p) ==
    \E i \in DOMAIN txs :
        /\ Ready(i) /\ Mine(i, p, "postcount") /\ procs[p].pc = "await_postcount"
        /\ txs' = IF SeedNeeded(StoreCount(View(txs[i])))
                  THEN Append([txs EXCEPT ![i] = Executed(@)],
                              Tx(p, procs[p].calls, "seed", "rw",
                                 [k \in DOMAIN initialVideos |->
                                    Req("add", initialVideos[k].id, initialVideos[k])]))
                  ELSE [txs EXCEPT ![i] = Executed(@)]
        /\ procs' = [procs EXCEPT ![p] = Resolve(@, <<>>)]
        /\ UNCHANGED <<db, openQ, nOpens, store, ls, faults, legal>>

\* postMigrationCountReq fails: it has no onerror handler, so nothing runs.
InitPostCountOnError(p) ==
    \E i \in DOMAIN txs :
        /\ Ready(i) /\ Mine(i, p, "postcount") /\ procs[p].pc = "await_postcount"
        /\ faults < MaxFaults
        /\ faults' = faults + 1
        /\ txs' = RemoveAt(txs, i)
        /\ UNCHANGED <<db, openQ, nOpens, store, ls, procs, legal>>

\* A seed add succeeds; no handler is attached to it.
SeedAddOnSuccess ==
    \E i \in DOMAIN txs :
        /\ Ready(i) /\ txs[i].tag = "seed"
        /\ ~Fails(HeadReq(i), View(txs[i]))
        /\ txs' = [txs EXCEPT ![i] = Executed(@)]
        /\ UNCHANGED <<db, openQ, nOpens, store, ls, procs, faults, legal>>

\* A seed add fails: nothing handles the error and the transaction aborts.
SeedAddOnError ==
    \E i \in DOMAIN txs :
        /\ Ready(i) /\ txs[i].tag = "seed"
        /\ Fails(HeadReq(i), View(txs[i])) \/ faults < MaxFaults
        /\ faults' = IF Fails(HeadReq(i), View(txs[i])) THEN faults ELSE faults + 1
        /\ txs' = RemoveAt(txs, i)
        /\ procs' = IF txs[i].call = procs[txs[i].owner].calls
                    THEN [procs EXCEPT ![txs[i].owner].txAborted = TRUE]
                    ELSE procs
        /\ UNCHANGED <<db, openQ, nOpens, store, ls, legal>>

----------------------------------------------------------------------------
(* openDB events *)

\* request.onsuccess of indexedDB.open: db is overwritten with this
\* request's connection and the waiting operation goes on with it.
OpenDBOnSuccess ==
    /\ openQ # <<>>
    /\ db' = Head(openQ).n
    /\ openQ' = Tail(openQ)
    /\ Resume(Head(openQ).p, [procs[Head(openQ).p] EXCEPT !.conn = Head(openQ).n])
    /\ UNCHANGED <<nOpens, store, faults, legal>>

\* request.onerror of indexedDB.open: openDB rejects, and with it the caller.
OpenDBOnError ==
    /\ openQ # <<>>
    /\ faults < MaxFaults
    /\ faults' = faults + 1
    /\ openQ' = Tail(openQ)
    /\ procs' = [procs EXCEPT ![Head(openQ).p] = Reject(@, "Error opening database.")]
    /\ UNCHANGED <<db, nOpens, store, txs, ls, legal>>

----------------------------------------------------------------------------
(* The running application: batch edits by the admin, reads by the viewer *)

Init ==
    /\ db = 0
    /\ openQ = <<>>
    /\ nOpens = 0
    /\ store = SessionCatalog
    /\ txs = <<>>
    /\ ls = [users |-> List(initialUsers), videos |-> Absent,
             completions |-> [u \in UserIds |-> List(<<1>>)],
             progress |-> [u \in UserIds |-> Absent]]
    /\ procs = [p \in Procs |-> IdleProc]
    /\ faults = 0
    /\ legal = {SessionCatalog}

Next ==
    \/ \E u \in UserIds \cup {NoUser} : GetVideos("viewer", u)
    \/ GetVideosOnSuccess("viewer")
    \/ GetVideosOnError("viewer")
    \/ \E ids \in BatchIds : DeleteMultipleVideos("admin", ids)
    \/ \E ids \in BatchIds, s \in Statuses : UpdateMultipleVideosStatus("admin", ids, s)
    \/ \E ids \in BatchIds, tg \in TagLists : AddTagsToMultipleVideos("admin", ids, tg)
    \/ DeleteOnSuccess("admin")
    \/ DeleteOnError("admin")
    \/ UpdateMultipleResume("admin")
    \/ UpdateMultipleGetRawOnError("admin")
    \/ \E i \in DOMAIN txs : TxComplete(i)
    \/ \E i \in DOMAIN txs : TxAbortOnCommit(i)
    \/ OpenDBOnSuccess
    \/ OpenDBOnError

Spec == Init /\ [][Next]_vars

----------------------------------------------------------------------------
(* Startup: initDB run by the App effect, one run after the other *)

\* Catalogs the Record Store may hold at startup.
StartCatalogs ==
    { {}, {Video(3, "user", "draft", {}, 3)},
      {Video(1, "user", "draft", {"t1"}, 3)}, SessionCatalog }

\* Records of a legacy list: two with the id of an initial video, one new.
LegacyRecs ==
    { Video(1, "legacy", "published", {}, 1), Video(1, "legacy", "draft", {}, 1),
      Video(3, "legacy", "published", {}, 1) }

\* What VIDEOS_KEY may hold at startup.
LegacyItems ==
    {Absent, EmptyStr, BadText, NonList}
        \cup {List(s) : s \in UNION {[1 .. n -> LegacyRecs] : n \in 0 .. MaxLegacy}}

InitStartup ==
    /\ db = 0
    /\ openQ = <<>>
    /\ nOpens = 0
    /\ store \in StartCatalogs
    /\ txs = <<>>
    /\ \E item \in LegacyItems, u \in {Absent, List(initialUsers)} :
          ls = [users |-> u, videos |-> item,
                completions |-> [x \in UserIds |-> Absent],
                progress |-> [x \in UserIds |-> Absent]]
    /\ procs = [p \in Procs |-> IdleProc]
    /\ faults = 0
    /\ legal = {}

NextStartup ==
    \/ InitDB("app")
    \/ InitCountOnSuccess("app")
    \/ InitCountOnError("app")
    \/ MigratePutOnSuccess("app")
    \/ MigratePutOnError("app")
    \/ InitPostCountOnSuccess("app")
    \/ InitPostCountOnError("app")
    \/ SeedAddOnSuccess
    \/ SeedAddOnError
    \/ \E i \in DOMAIN txs : TxComplete(i)
    \/ \E i \in DOMAIN txs : TxAbortOnCommit(i)
    \/ OpenDBOnSuccess
    \/ OpenDBOnError

SpecStartup == InitStartup /\ [][NextStartup]_vars

\* The first page load: the VideoProvider's effect reads the catalog while
\* the App effect's initDB is under way.
NextFirstLoad ==
    \/ NextStartup
    \/ GetVideos("viewer", NoUser)
    \/ GetVideosOnSuccess("viewer")
    \/ GetVideosOnError("viewer")

SpecFirstLoad == InitStartup /\ [][NextFirstLoad]_vars

----------------------------------------------------------------------------
(* Properties of the batch operations and of openDB, under Spec *)

BatchOps == {"deleteMultipleVideos", "updateMultipleVideosStatus",
             "addTagsToMultipleVideos"}

Observed(p) == {Strip(r) : r \in Range(procs[p].val)}

\* C1: batch atomicity. Every catalog that getVideos hands to a reader is
\* the catalog before or after whole batches: no reader sees a catalog in
\* which only some of the records listed in a batch are mutated.
C1_BatchAtomicForReaders ==
    \A p \in Procs :
        (procs[p].op = "getVideos" /\ procs[p].out = "resolved")
            => Observed(p) \in legal

\* C1 witness: a read that was called while a readwrite transaction was live
\* returns the catalog with both records of a two-record delete batch gone.
C1_Witness ==
    /\ procs["viewer"].op = "getVideos" /\ procs["viewer"].out = "resolved"
    /\ procs["viewer"].overlap
    /\ procs["admin"].op = "deleteMultipleVideos"
    /\ Cardinality(Range(procs["admin"].ids) \cap Keys(SessionCatalog)) >= 2
    /\ Observed("viewer") = FullEffect(procs["admin"], SessionCatalog)

\* A batch call over two existing ids and one missing id, made with no
\* transaction live, that has settled with no storage failure and whose
\* transactions have all finished.
SettledOnMissing(p) ==
    /\ procs[p].op \in BatchOps
    /\ procs[p].out \in {"resolved", "rejected"}
    /\ procs[p].quiet /\ faults = 0 /\ txs = <<>>
    /\ Cardinality(Range(procs[p].ids) \cap Keys(procs[p].pre)) = 2
    /\ Cardinality(Range(procs[p].ids) \ Keys(procs[p].pre)) = 1

\* C2: missing-id policy. updateMultipleVideosStatus([id1, id2, idMissing])
\* updates id1 and id2 and creates nothing for idMissing (or updates
\* neither), and deleteMultipleVideos and addTagsToMultipleVideos ignore the
\* missing id and apply the rest.
C2_MissingIdPolicy ==
    \A p \in Procs :
        SettledOnMissing(p) =>
            \/ store = FullEffect(procs[p], procs[p].pre)
            \/ /\ procs[p].op = "updateMultipleVideosStatus"
               /\ store = procs[p].pre

\* C3: a batch whose transaction failed or aborted never reports success,
\* and the catalog is the one before the batch.
C3_AbortIsReported ==
    \A p \in Procs :
        (procs[p].op \in BatchOps /\ procs[p].txAborted)
            => /\ procs[p].out # "resolved"
               /\ store = procs[p].pre

\* C10: openDB is idempotent: the database is opened at most once and every
\* call resolves to the same handle.
C10_OpenedOnce ==
    /\ nOpens <= 1
    /\ \A p, q \in Procs :
          (procs[p].conn # 0 /\ procs[q].conn # 0) => procs[p].conn = procs[q].conn

----------------------------------------------------------------------------
(* Properties of startup, under SpecStartup (C9 under SpecFirstLoad) *)

App == procs["app"]

\* The legacy key holds a non-empty list.
HasLegacyList(item) == IsArray(item) /\ Len(item.val) > 0

\* The records a list leaves under their ids when a later record with the
\* same id replaces an earlier one.
LastWins(s) ==
    {s[i] : i \in {k \in DOMAIN s : \A j \in DOMAIN s : j > k => s[j].id # s[k].id}}

\* C4: migration idempotence. When initDB is run again after a run that has
\* completed, a legacy key that was absent when the second run started is
\* absent in every state of that run, and, when no storage request failed,
\* the catalog after the second run is the catalog the first run left.
C4_MigrationIdempotent ==
    (App.op = "initDB" /\ App.calls >= 2)
        => /\ App.keyPre = Absent => ls.videos = Absent
           /\ (faults = 0 /\ App.out = "resolved" /\ txs = <<>>)
                 => store = App.pre

\* C4 witness: the second run has completed on a catalog into which the
\* first run migrated legacy records and removed the key.
C4_Witness ==
    /\ App.op = "initDB" /\ App.calls >= 2 /\ App.out = "resolved"
    /\ faults = 0 /\ txs = <<>>
    /\ App.keyPre = Absent /\ ls.videos = Absent
    /\ \E r \in store : r.src = "legacy"
    /\ store = App.pre

\* C5: once initDB has completed, localStorage holds nothing under the
\* legacy key, whatever it held before (list, non-list, unparseable text);
\* stated here for the runs in which no storage request failed.
C5_LegacyKeyAbsentAfterInit ==
    (App.op = "initDB" /\ App.out = "resolved" /\ faults = 0
        /\ App.keyPre.kind \in {"list", "json", "text"})
        => ls.videos = Absent

\* C6: legacy transfer. After initDB has run on an empty Record Store with a
\* non-empty legacy list and no storage request failed, the legacy key is
\* removed and the catalog holds exactly the legacy records under their ids,
\* a later record of the list replacing an earlier one with the same id, and
\* no record of the initial dataset.
C6_LegacyTransfer ==
    (App.op = "initDB" /\ App.calls = 1 /\ App.out = "resolved" /\ faults = 0
        /\ App.pre = {} /\ HasLegacyList(App.keyPre))
        => /\ ls.videos = Absent
           /\ txs = <<>> => store = LastWins(App.keyPre.val)

\* C6 witness: a completed transfer of a list whose two records share an id.
C6_Witness ==
    /\ App.op = "initDB" /\ App.calls = 1 /\ App.out = "resolved" /\ faults = 0
    /\ App.pre = {} /\ HasLegacyList(App.keyPre) /\ txs = <<>>
    /\ Len(App.keyPre.val) = 2
    /\ App.keyPre.val[1].id = App.keyPre.val[2].id
    /\ App.keyPre.val[1] # App.keyPre.val[2]
    /\ store = {App.keyPre.val[2]}
    /\ ls.videos = Absent

\* C7: seeding. After initDB has run on an empty Record Store with no legacy
\* video data and no storage request failed, the catalog is exactly the
\* initial dataset; and a run that starts on a non-empty Record Store never
\* adds a record of the initial dataset (none is in the catalog its
\* transactions leave that was not there when the run started), in a first
\* run whatever fails, and in a later run when no storage request failed.
C7_Seeding ==
    /\ (App.op = "initDB" /\ App.calls = 1 /\ App.out = "resolved" /\ faults = 0
          /\ txs = <<>> /\ App.pre = {} /\ ~HasLegacyList(App.keyPre))
          => store = Range(initialVideos)
    /\ (App.op = "initDB" /\ App.pre # {} /\ (App.calls = 1 \/ faults = 0))
          => \A r \in Range(initialVideos) :
                r \in Settled(store, txs) => r \in App.pre

\* C7 witness: a completed first run on an empty store whose legacy key held
\* unparseable text, with the initial dataset as the catalog.
C7_Witness ==
    /\ App.op = "initDB" /\ App.calls = 1 /\ App.out = "resolved" /\ faults = 0
    /\ txs = <<>> /\ App.pre = {} /\ App.keyPre = BadText
    /\ store = Range(initialVideos)

\* C8: startup never blocks. A pending initDB always has an event to come
\* that one of its handlers receives: its open request, or a pending
\* request of its count, migration or second count transaction.
C8_InitDBNeverStuck ==
    (App.op = "initDB" /\ App.out = "pending")
        => \/ \E k \in DOMAIN openQ : openQ[k].p = "app"
           \/ \E i \in DOMAIN txs :
                 /\ txs[i].owner = "app" /\ txs[i].call = App.calls
                 /\ txs[i].tag \in {"count", "migrate", "postcount"}
                 /\ txs[i].reqs # <<>>

\* C9: initialization before use. A data operation invoked before initDB has
\* completed fails with an Uninitialized error.
C9_UninitializedBeforeInit ==
    \A p \in Procs :
        (procs[p].op = "getVideos" /\ procs[p].early /\ procs[p].out # "pending")
            => (procs[p].out = "rejected" /\ procs[p].err = "Uninitialized")

----------------------------------------------------------------------------
(* The Scalar Store: saveToStorage and the user table (localStorage) *)

\* What localStorage.setItem does with a write: it stores the value, or it
\* throws a DOMException (quota, under either of its two names) or another
\* error, and then stores nothing.
SetItemOutcomes ==
    {"ok", "QuotaExceededError", "NS_ERROR_DOM_QUOTA_REACHED", "SecurityError"}

\* Keys: <<"users">>, <<"completions", userId>>, <<"progress", userId>>.
SetItem(l, key, value) ==
    CASE key[1] = "users" -> [l EXCEPT !.users = value]
      [] key[1] = "completions" -> [l EXCEPT !.completions[key[2]] = value]
      [] key[1] = "progress" -> [l EXCEPT !.progress[key[2]] = value]

GetItem(l, key) ==
    CASE key[1] = "users" -> l.users
      [] key[1] = "completions" -> l.completions[key[2]]
      [] key[1] = "progress" -> l.progress[key[2]]

\* The exceptions setItem raised in a call: none, or the one that ended it.
Thrown(outcome) == IF outcome = "ok" THEN <<>> ELSE <<outcome>>

\* A mutant of SaveToStorage: the catch block logs and does not rethrow.
SaveToStorageSwallow(l, key, value, outcome) ==
    [ls |-> IF outcome = "ok" THEN SetItem(l, key, value) ELSE l, err |-> ""]

\* saveToStorage: the store after the call and the error thrown ("" = none).
SaveToStorage(l, key, value, outcome) ==
    [ls |-> IF outcome = "ok" THEN SetItem(l, key, value) ELSE l,
     err |-> CASE outcome = "ok" -> ""
               [] outcome \in {"QuotaExceededError", "NS_ERROR_DOM_QUOTA_REACHED"} ->
                     "Storage quota exceeded. Please clear some space."
               [] OTHER -> outcome]

\* Emails, with String.prototype.toLowerCase on them.
Emails == {"student@x", "Student@X", "new@x"}
ToLowerCase(e) == IF e = "Student@X" THEN "student@x" ELSE e

Passwords == {"pw1", "pw2"}

\* `user_${Date.now()}`: the id registerStudent generates.
UserIdAt(now) == <<"user_1", "user_2", "user_3">>[now]
AllUserIds == {"u1"} \cup {UserIdAt(t) : t \in Clock}

\* A mutant of SameEmail: the comparison without toLowerCase.
SameEmailExact(a, b) == a = b

\* u.email.toLowerCase() === email.toLowerCase()
SameEmail(a, b) == ToLowerCase(a) = ToLowerCase(b)

\* const { password, ...userWithoutPassword } = user
WithoutPassword(u) == [f \in DOMAIN u \ {"password"} |-> u[f]]

\* { ...user, ...updatedData }
Merge(u, updatedData) ==
    [f \in DOMAIN u \cup DOMAIN updatedData |->
        IF f \in DOMAIN updatedData THEN updatedData[f] ELSE u[f]]

\* updatedData of updateUserProfile: { name, email } from the profile forms,
\* { status } from the admin's user list (no modelled field changes).
Patches == {[email |-> e] : e \in Emails} \cup {<<>>}

\* getUsers: the array returned (by value), the store after the call and the
\* error thrown. A value that is not an array is replaced by initialUsers.
getUsers(l, outcome) ==
    LET users == GetFromStorage(l.users, List(<<>>))
    IN IF ~IsArray(users)
       THEN LET w == SaveToStorage(l, <<"users">>, List(initialUsers), outcome)
            IN [val |-> initialUsers, ls |-> w.ls, err |-> w.err,
                failed |-> Thrown(outcome)]
       ELSE [val |-> users.val, ls |-> l, err |-> "", failed |-> <<>>]

\* The frame of a synchronous call of `op` with argument a.
NewSyncCall(p, op, a) ==
    [IdleProc EXCEPT !.op = op, !.calls = procs[p].calls + 1, !.arg = a,
                     !.lsPre = ls]

CanOp(p) == procs[p].calls < MaxOps

\* o1 is the outcome of the write getUsers makes when it resets the table,
\* o2 the outcome of the operation's own write; a write that is not reached
\* has no outcome to choose, which "ok" stands for.
Reached(o1, o2) ==
    /\ IsArray(GetFromStorage(ls.users, List(<<>>))) => o1 = "ok"
    /\ o1 # "ok" => o2 = "ok"

\* A synchronous operation of flow p ends in this task: with the store l, and
\* either the error e thrown ("" = none) or the value v returned.
Finish(p, pr, l, e, v, thrown) ==
    /\ faults + Len(thrown) <= MaxFaults
    /\ faults' = faults + Len(thrown)
    /\ ls' = l
    /\ procs' = [procs EXCEPT ![p] =
                    [IF e # "" THEN Reject(pr, e) ELSE Resolve(pr, v)
                        EXCEPT !.thrown = thrown]]
    /\ UNCHANGED <<db, openQ, nOpens, store, txs, legal>>

GetUsers(p, o1) ==
    /\ CanOp(p) /\ Reached(o1, "ok")
    /\ LET g == getUsers(ls, o1)
       IN Finish(p, NewSyncCall(p, "getUsers", <<>>), g.ls, g.err, g.val,
                 g.failed)

\* authenticateUser; the auth hook's login throws when it returns null.
AuthenticateUser(p, email, password_sent, o1) ==
    /\ CanOp(p) /\ Reached(o1, "ok")
    /\ LET g == getUsers(ls, o1)
           pr == NewSyncCall(p, "authenticateUser", [email |-> email])
           found == SelectSeq(g.val, LAMBDA u : SameEmail(u.email, email))
       IN IF g.err # "" THEN Finish(p, pr, g.ls, g.err, <<>>, g.failed)
          ELSE IF found # <<>> /\ "password" \in DOMAIN found[1]
                  /\ found[1].password = password_sent
          THEN Finish(p, pr, g.ls, "", <<WithoutPassword(found[1])>>, g.failed)
          ELSE Finish(p, pr, g.ls, "Invalid credentials", <<>>, g.failed)

\* registerStudent as called by the auth hook's register, which throws
\* 'Email already exists' when it returns null.
RegisterStudent(p, userData, now, o1, o2) ==
    /\ CanOp(p) /\ Reached(o1, o2)
    /\ LET g == getUsers(ls, o1)
           pr == NewSyncCall(p, "registerStudent", userData)
           newUser == [id |-> UserIdAt(now), email |-> userData.email,
                       type |-> "student", password |-> userData.password]
           w == SaveToStorage(g.ls, <<"users">>, List(Append(g.val, newUser)), o2)
       IN IF g.err # "" THEN Finish(p, pr, g.ls, g.err, <<>>, g.failed)
          ELSE IF \E u \in Range(g.val) : SameEmail(u.email, userData.email)
          THEN Finish(p, pr, g.ls, "Email already exists", <<>>, g.failed)
          ELSE Finish(p, pr, w.ls, w.err, <<WithoutPassword(newUser)>>,
                      g.failed \o Thrown(o2))

\* updateUserProfile: null (here <<>>) when no user has the id.
UpdateUserProfile(p, userId, updatedData, o1, o2) ==
    /\ CanOp(p) /\ Reached(o1, o2)
    /\ LET g == getUsers(ls, o1)
           pr == NewSyncCall(p, "updateUserProfile",
                             [userId |-> userId, updatedData |-> updatedData])
           hits == {k \in DOMAIN g.val : g.val[k].id = userId}
           userIndex == CHOOSE k \in hits : \A j \in hits : k <= j
           users == [g.val EXCEPT ![userIndex] = Merge(@, updatedData)]
           w == SaveToStorage(g.ls, <<"users">>, List(users), o2)
       IN IF g.err # "" THEN Finish(p, pr, g.ls, g.err, <<>>, g.failed)
          ELSE IF hits = {} THEN Finish(p, pr, g.ls, "", <<>>, g.failed)
          ELSE Finish(p, pr, w.ls, w.err, <<WithoutPassword(users[userIndex])>>,
                      g.failed \o Thrown(o2))

\* changePassword: true (here <<TRUE>>) when the old password matched.
ChangePassword(p, userId, oldPass, newPass, o1, o2) ==
    /\ CanOp(p) /\ Reached(o1, o2)
    /\ LET g == getUsers(ls, o1)
           pr == NewSyncCall(p, "changePassword", [userId |-> userId])
           hits == {k \in DOMAIN g.val : g.val[k].id = userId}
           k0 == CHOOSE k \in hits : \A j \in hits : k <= j
           users == [g.val EXCEPT ![k0] = Merge(@, [password |-> newPass])]
           w == SaveToStorage(g.ls, <<"users">>, List(users), o2)
       IN IF g.err # "" THEN Finish(p, pr, g.ls, g.err, <<>>, g.failed)
          ELSE IF hits # {} /\ "password" \in DOMAIN g.val[k0]
                  /\ g.val[k0].password = oldPass
          THEN Finish(p, pr, w.ls, w.err, <<TRUE>>,
                      g.failed \o Thrown(o2))
          ELSE Finish(p, pr, g.ls, "", <<FALSE>>, g.failed)

DeleteUser(p, userId, o1, o2) ==
    /\ CanOp(p) /\ Reached(o1, o2)
    /\ LET g == getUsers(ls, o1)
           pr == NewSyncCall(p, "deleteUser", [userId |-> userId])
           users == SelectSeq(g.val, LAMBDA u : u.id # userId)
           w == SaveToStorage(g.ls, <<"users">>, List(users), o2)
       IN IF g.err # "" THEN Finish(p, pr, g.ls, g.err, <<>>, g.failed)
          ELSE Finish(p, pr, w.ls, w.err, <<>>, g.failed \o Thrown(o2))

\* What the users key may hold when the page is loaded.
UserTables ==
    {Absent, BadText, NonList, Map(<<>>), List(<<>>), List(initialUsers)}

InitUsersSpec ==
    /\ db = 0
    /\ openQ = <<>>
    /\ nOpens = 0
    /\ store = SessionCatalog
    /\ txs = <<>>
    /\ \E t \in UserTables :
          ls = [users |-> t, videos |-> Absent,
                completions |-> [u \in UserIds |-> Absent],
                progress |-> [u \in UserIds |-> Absent]]
    /\ procs = [p \in Procs |-> IdleProc]
    /\ faults = 0
    /\ legal = {}

NextUsers ==
    \/ \E o1 \in SetItemOutcomes : GetUsers("admin", o1)
    \/ \E e \in Emails, pw \in Passwords, o1 \in SetItemOutcomes :
          AuthenticateUser("admin", e, pw, o1)
    \/ \E e \in Emails, pw \in Passwords, now \in Clock, o1, o2 \in SetItemOutcomes :
          RegisterStudent("admin", [email |-> e, password |-> pw], now, o1, o2)
    \/ \E u \in AllUserIds, d \in Patches, o1, o2 \in SetItemOutcomes :
          UpdateUserProfile("admin", u, d, o1, o2)
    \/ \E u \in AllUserIds, a, b \in Passwords, o1, o2 \in SetItemOutcomes :
          ChangePassword("admin", u, a, b, o1, o2)
    \/ \E u \in AllUserIds, o1, o2 \in SetItemOutcomes : DeleteUser("admin", u, o1, o2)

SpecUsers == InitUsersSpec /\ [][NextUsers]_vars

----------------------------------------------------------------------------
(* Completion sets and progress maps (localStorage, one key per user) *)

WatchUsers == {"u1", "u2"}

\* A mutant of getProgressKey: one key for every user.
getProgressKeyShared(userId) == <<"progress", "u1">>

\* `eduportal_progress_${userId}`
getProgressKey(userId) == <<"progress", userId>>

\* `eduportal_completions_${userId}`
getCompletionsKey(userId) == <<"completions", userId>>

VideoProgress(progress, duration) == [progress |-> progress, duration |-> duration]
Seconds == {5}
Durations == {10}

\* userProgress[videoId] = { progress, duration }
Upsert(m, videoId, entry) ==
    [k \in DOMAIN m \cup {videoId} |-> IF k = videoId THEN entry ELSE m[k]]

\* getProgressForUser: a value that is not a plain object is replaced by {}.
getProgressForUser(l, userId, outcome) ==
    LET progress == GetFromStorage(GetItem(l, getProgressKey(userId)), Map(<<>>))
    IN IF progress.kind # "map"
       THEN LET w == SaveToStorage(l, getProgressKey(userId), Map(<<>>), outcome)
            IN [val |-> Map(<<>>), ls |-> w.ls, err |-> w.err,
                failed |-> Thrown(outcome)]
       ELSE [val |-> progress, ls |-> l, err |-> "", failed |-> <<>>]

\* o1 is the outcome of the write getProgressForUser makes when it resets the
\* map; without that write there is no outcome to choose.
ProgressWrite(o1, userId) ==
    GetFromStorage(GetItem(ls, getProgressKey(userId)), Map(<<>>)).kind = "map"
        => o1 = "ok"

\* The list updateVideoCompletion saves.
Completed(l, userId, videoId, isCompleted) ==
    LET got == GetFromStorage(GetItem(l, getCompletionsKey(userId)), List(<<>>))
        completedVideoIds == IF IsArray(got) THEN got.val ELSE <<>>
    IN IF isCompleted
       THEN IF videoId \in Range(completedVideoIds) THEN completedVideoIds
            ELSE Append(completedVideoIds, videoId)
       ELSE SelectSeq(completedVideoIds, LAMBDA id : id # videoId)

updateVideoCompletion(l, userId, videoId, isCompleted, outcome) ==
    SaveToStorage(l, getCompletionsKey(userId),
                  List(Completed(l, userId, videoId, isCompleted)), outcome)

GetProgressForUser(p, userId, o1) ==
    /\ CanOp(p)
    /\ ProgressWrite(o1, userId)
    /\ LET g == getProgressForUser(ls, userId, o1)
       IN Finish(p, NewSyncCall(p, "getProgressForUser", [userId |-> userId]),
                 g.ls, g.err, <<g.val>>, g.failed)

UpdateVideoProgress(p, userId, videoId, progress, duration, o1, o2) ==
    /\ CanOp(p)
    /\ ProgressWrite(o1, userId) /\ (o1 # "ok" => o2 = "ok")
    /\ LET g == getProgressForUser(ls, userId, o1)
           pr == NewSyncCall(p, "updateVideoProgress",
                    [userId |-> userId, videoId |-> videoId,
                     entry |-> VideoProgress(progress, duration)])
           userProgress == Upsert(g.val.val, videoId, VideoProgress(progress, duration))
           w == SaveToStorage(g.ls, getProgressKey(userId), Map(userProgress), o2)
       IN IF g.err # "" THEN Finish(p, pr, g.ls, g.err, <<>>, g.failed)
          ELSE Finish(p, pr, w.ls, w.err, <<>>, g.failed \o Thrown(o2))

\* A mutant of UpdateVideoCompletion: the list is computed from what the
\* flow read at its previous call, as an operation that suspended between
\* its read and its write would.
UpdateVideoCompletionStale(p, userId, videoId, isCompleted, o2) ==
    /\ CanOp(p)
    /\ LET read == IF procs[p].lsPre = <<>> THEN ls ELSE procs[p].lsPre
           w == SaveToStorage(ls, getCompletionsKey(userId),
                              List(Completed(read, userId, videoId, isCompleted)), o2)
       IN Finish(p, NewSyncCall(p, "updateVideoCompletion",
                       [userId |-> userId, videoId |-> videoId,
                        isCompleted |-> isCompleted]),
                 w.ls, w.err, <<>>, Thrown(o2))

UpdateVideoCompletion(p, userId, videoId, isCompleted, o2) ==
    /\ CanOp(p)
    /\ LET w == updateVideoCompletion(ls, userId, videoId, isCompleted, o2)
       IN Finish(p, NewSyncCall(p, "updateVideoCompletion",
                       [userId |-> userId, videoId |-> videoId,
                        isCompleted |-> isCompleted]),
                 w.ls, w.err, <<>>, Thrown(o2))

\* The VideoProvider's state: `videos` as last rendered is the value of the
\* viewer's resolved getVideos (setVideos(allVideos)), and `queued` holds the
\* setVideos updates of toggleVideoCompletion that no render has applied yet.
Cached == procs["viewer"].op = "getVideos" /\ procs["viewer"].out = "resolved"

\* toggleVideoCompletion of the hook, on the `videos` of the last render.
ToggleVideoCompletion(p, videoId, o2) ==
    /\ CanOp(p) /\ Cached
    /\ LET user == procs["viewer"].user
           videos == procs["viewer"].val
           hits == {k \in DOMAIN videos : videos[k].id = videoId}
           video == videos[CHOOSE k \in hits : TRUE]
           newCompletedStatus == ~video.completed
           pr == NewSyncCall(p, "toggleVideoCompletion",
                             [userId |-> user, videoId |-> videoId,
                              listed |-> hits # {}])
           w == updateVideoCompletion(ls, user, videoId, newCompletedStatus, o2)
       IN IF user = NoUser \/ hits = {}
          THEN /\ o2 = "ok"
               /\ ls' = ls /\ faults' = faults
               /\ procs' = [procs EXCEPT ![p] = Resolve(pr, <<>>)]
          ELSE /\ faults + Len(Thrown(o2)) <= MaxFaults
               /\ faults' = faults + Len(Thrown(o2))
               /\ ls' = w.ls
               /\ procs' = [procs EXCEPT
                     ![p] = [IF w.err # "" THEN Reject(pr, w.err) ELSE Resolve(pr, <<>>)
                                EXCEPT !.thrown = Thrown(o2)],
                     !["viewer"].queued =
                         IF w.err # "" THEN @
                         ELSE Append(@, [id |-> videoId, completed |-> newCompletedStatus])]
    /\ UNCHANGED <<db, openQ, nOpens, store, txs, legal>>

\* One queued setVideos update applied to the list.
RECURSIVE ApplyQueued(_, _)
ApplyQueued(videos, q) ==
    IF q = <<>> THEN videos
    ELSE ApplyQueued([k \in DOMAIN videos |->
                         IF videos[k].id = Head(q).id
                         THEN [videos[k] EXCEPT !.completed = Head(q).completed]
                         ELSE videos[k]], Tail(q))

\* React renders: the queued updates are applied and the callbacks close
\* over the new `videos`.
Render ==
    /\ Cached /\ procs["viewer"].queued # <<>>
    /\ procs' = [procs EXCEPT !["viewer"].val = ApplyQueued(@, procs["viewer"].queued),
                              !["viewer"].queued = <<>>]
    /\ UNCHANGED <<db, openQ, nOpens, store, txs, ls, faults, legal>>

\* What a user's completions and progress keys may hold at page load.
CompletionItems == {Absent, BadText, NonList, Map(<<>>), List(<<>>), List(<<1>>)}
ProgressItems ==
    {Absent, BadText, NonList, List(<<>>), Map(<<>>),
     Map(Upsert(<<>>, 1, VideoProgress(9, 10)))}

\* The keys at page load: at most one of them holds a malformed value.
WatchStores ==
    {[users |-> t, videos |-> Absent,
      completions |-> [u \in WatchUsers |-> IF u = "u1" THEN c ELSE List(<<2>>)],
      progress |-> [u \in WatchUsers |->
                       IF u = "u1" THEN g
                       ELSE Map(Upsert(<<>>, 2, VideoProgress(9, 10)))]] :
        t \in {List(initialUsers), BadText, NonList}, c \in CompletionItems,
        g \in ProgressItems}

WellFormed(l) ==
    /\ IsArray(l.users)
    /\ \A u \in DOMAIN l.completions : l.completions[u].kind \in {"absent", "list"}
    /\ \A u \in DOMAIN l.progress : l.progress[u].kind \in {"absent", "map"}

InitWatch ==
    /\ db = 0
    /\ openQ = <<>>
    /\ nOpens = 0
    /\ store = SessionCatalog
    /\ txs = <<>>
    /\ ls \in {l \in WatchStores :
                 \/ WellFormed(l)
                 \/ WellFormed([l EXCEPT !.users = List(initialUsers)])
                       /\ l.completions["u1"] = Absent /\ l.progress["u1"] = Absent
                 \/ WellFormed([l EXCEPT !.completions["u1"] = Absent])
                       /\ l.progress["u1"] = Absent
                 \/ WellFormed([l EXCEPT !.progress["u1"] = Absent])
                       /\ l.completions["u1"] = Absent}
    /\ procs = [p \in Procs |-> IdleProc]
    /\ faults = 0
    /\ legal = {}

\* Reads of the three kinds of key: getUsers, getVideos(userId) and
\* getProgressForUser.
NextReads ==
    \/ \E u \in WatchUsers : GetVideos("viewer", u)
    \/ GetVideosOnSuccess("viewer")
    \/ GetVideosOnError("viewer")
    \/ \E i \in DOMAIN txs : TxComplete(i)
    \/ OpenDBOnSuccess
    \/ OpenDBOnError
    \/ \E u \in WatchUsers, o1 \in SetItemOutcomes : GetProgressForUser("student", u, o1)
    \/ \E o1 \in SetItemOutcomes : GetUsers("student", o1)

SpecReads == InitWatch /\ [][NextReads]_vars

\* The student's video list: loaded by the VideoProvider, then toggled.
NextToggle ==
    \/ \E u \in WatchUsers : GetVideos("viewer", u)
    \/ GetVideosOnSuccess("viewer")
    \/ GetVideosOnError("viewer")
    \/ \E i \in DOMAIN txs : TxComplete(i)
    \/ OpenDBOnSuccess
    \/ OpenDBOnError
    \/ \E v \in Ids, o2 \in SetItemOutcomes : ToggleVideoCompletion("student", v, o2)
    \/ Render

SpecToggle == InitWatch /\ [][NextToggle]_vars

\* Progress reports of the player.
NextProgress ==
    \/ \E u \in WatchUsers, o1 \in SetItemOutcomes : GetProgressForUser("student", u, o1)
    \/ \E u \in WatchUsers, v \in Ids, s \in Seconds, d \in Durations,
          o1, o2 \in SetItemOutcomes :
             UpdateVideoProgress("student", u, v, s, d, o1, o2)

SpecProgress == InitWatch /\ [][NextProgress]_vars

\* The operations that write the Scalar Store, on the signed-in student's
\* own records.
NextWrites ==
    \/ \E e \in {"new@x", "Student@X"}, o1, o2 \in SetItemOutcomes :
          RegisterStudent("student", [email |-> e, password |-> "pw2"], 1, o1, o2)
    \/ \E d \in Patches, o1, o2 \in SetItemOutcomes :
          UpdateUserProfile("student", "u1", d, o1, o2)
    \/ \E a \in Passwords, o1, o2 \in SetItemOutcomes :
          ChangePassword("student", "u1", a, "pw2", o1, o2)
    \/ \E v \in {1, 2}, c \in BOOLEAN, o2 \in SetItemOutcomes :
          UpdateVideoCompletion("student", "u1", v, c, o2)
    \/ \E v \in {1, 2}, s \in Seconds, d \in Durations, o1, o2 \in SetItemOutcomes :
          UpdateVideoProgress("student", "u1", v, s, d, o1, o2)

SpecWrites == InitWatch /\ [][NextWrites]_vars

----------------------------------------------------------------------------
(* Catalog edits of the admin: addVideo and updateVideo *)

\* The signed-in admin, whose id refreshVideos passes to getVideos.
AdminId == "a1"

\* addVideo of the hook: addVideo of services/db, then refreshVideos.
AddVideo(p, videoData, now) ==
    /\ CanCall(p)
    /\ openDB(p, [NewCall(p, "addVideo") EXCEPT
                     !.arg = [videoData |-> videoData, now |-> now,
                              newVideo |-> NoRec]])
    /\ UNCHANGED <<store, faults, legal>>

\* request.onsuccess of store.add: addVideo resolves with newVideo, before
\* the transaction commits; the hook goes on to refreshVideos in the same
\* task, whose getVideos(user.id) queues its read behind the add.
AddVideoOnSuccess(p) ==
    \E i \in DOMAIN txs :
        /\ Ready(i) /\ Mine(i, p, "add") /\ HeadReq(i).kind = "add"
        /\ procs[p].op = "addVideo" /\ procs[p].pc = "await_add"
        /\ ~Fails(HeadReq(i), View(txs[i]))
        /\ txs' = Append([txs EXCEPT ![i] = Executed(@)],
                         Tx(p, procs[p].calls, "read", "ro",
                            <<Req("getAll", 0, NoRec)>>))
        /\ procs' = [procs EXCEPT ![p] =
                        [@ EXCEPT !.op = "getVideos", !.pc = "await_getAll",
                                  !.user = AdminId,
                                  !.arg.newVideo = HeadReq(i).rec]]
        /\ UNCHANGED <<db, openQ, nOpens, store, ls, faults, legal>>

\* request.onerror of store.add: the key is present (ConstraintError) or the
\* request fails otherwise; addVideo rejects, the transaction aborts and the
\* hook rethrows without a refresh.
AddVideoOnError(p) ==
    \E i \in DOMAIN txs :
        /\ Ready(i) /\ Mine(i, p, "add") /\ HeadReq(i).kind = "add"
        /\ procs[p].op = "addVideo" /\ procs[p].pc = "await_add"
        /\ LET dup == Fails(HeadReq(i), View(txs[i]))
           IN /\ dup \/ faults < MaxFaults
              /\ faults' = IF dup THEN faults ELSE faults + 1
              /\ procs' = [procs EXCEPT ![p] =
                              [Reject(@, IF dup THEN "ConstraintError"
                                         ELSE "RequestError")
                                  EXCEPT !.txAborted = TRUE]]
        /\ txs' = RemoveAt(txs, i)
        /\ UNCHANGED <<db, openQ, nOpens, store, ls, legal>>

\* updatedData of updateVideo (Partial<Video>).
VideoPatches == {[status |-> "published"], [completed |-> TRUE], [id |-> 2]}

\* The videoId arguments tried: a record of the catalog and a missing one.
EditIds == {1, 3}

UpdateVideo(p, videoId, updatedData) ==
    /\ CanCall(p)
    /\ openDB(p, [NewCall(p, "updateVideo") EXCEPT
                     !.arg = [videoId |-> videoId, updatedData |-> updatedData]])
    /\ UNCHANGED <<store, faults, legal>>

\* getRequest.onsuccess: null when the record is missing, otherwise the
\* merged record is put in the same transaction.
UpdateVideoGetOnSuccess(p) ==
    \E i \in DOMAIN txs :
        /\ Ready(i) /\ Mine(i, p, "update") /\ HeadReq(i).kind = "get"
        /\ procs[p].op = "updateVideo" /\ procs[p].pc = "await_get"
        /\ LET found == {r \in View(txs[i]) : r.id = HeadReq(i).key}
               video == CHOOSE r \in found : TRUE
               merged == Merge(video, procs[p].arg.updatedData)
               updatedVideo == WithId(merged, merged.id)
           IN IF found = {}
              THEN /\ procs' = [procs EXCEPT ![p] = Resolve(@, <<>>)]
                   /\ txs' = [txs EXCEPT ![i] = Executed(@)]
              ELSE /\ procs' = [procs EXCEPT ![p].pc = "await_put"]
                   /\ txs' = [txs EXCEPT ![i] =
                                [Executed(@) EXCEPT !.reqs =
                                    <<Req("put", updatedVideo.id, updatedVideo)>>]]
        /\ UNCHANGED <<db, openQ, nOpens, store, ls, faults, legal>>

\* getRequest.onerror: updateVideo rejects and the transaction aborts.
UpdateVideoGetOnError(p) ==
    \E i \in DOMAIN txs :
        /\ Ready(i) /\ Mine(i, p, "update") /\ HeadReq(i).kind = "get"
        /\ procs[p].op = "updateVideo" /\ procs[p].pc = "await_get"
        /\ faults < MaxFaults
        /\ faults' = faults + 1
        /\ txs' = RemoveAt(txs, i)
        /\ procs' = [procs EXCEPT ![p] =
                        [Reject(@, "RequestError") EXCEPT !.txAborted = TRUE]]
        /\ UNCHANGED <<db, openQ, nOpens, store, ls, legal>>

\* putRequest.onsuccess: updateVideo resolves with the merged record,
\* before the transaction commits.
UpdateVideoPutOnSuccess(p) ==
    \E i \in DOMAIN txs :
        /\ Ready(i) /\ Mine(i, p, "update") /\ HeadReq(i).kind = "put"
        /\ procs[p].op = "updateVideo" /\ procs[p].pc = "await_put"
        /\ procs' = [procs EXCEPT ![p] = Resolve(@, <<HeadReq(i).rec>>)]
        /\ txs' = [txs EXCEPT ![i] = Executed(@)]
        /\ UNCHANGED <<db, openQ, nOpens, store, ls, faults, legal>>

\* putRequest.onerror: updateVideo rejects and the transaction aborts.
UpdateVideoPutOnError(p) ==
    \E i \in DOMAIN txs :
        /\ Ready(i) /\ Mine(i, p, "update") /\ HeadReq(i).kind = "put"
        /\ procs[p].op = "updateVideo" /\ procs[p].pc = "await_put"
        /\ faults < MaxFaults
        /\ faults' = faults + 1
        /\ txs' = RemoveAt(txs, i)
        /\ procs' = [procs EXCEPT ![p] =
                        [Reject(@, "RequestError") EXCEPT !.txAborted = TRUE]]
        /\ UNCHANGED <<db, openQ, nOpens, store, ls, legal>>

\* The admin edits the catalog of earlier sessions while a viewer loads it.
InitCatalog ==
    /\ db = 0
    /\ openQ = <<>>
    /\ nOpens = 0
    /\ store = SessionCatalog
    /\ txs = <<>>
    /\ ls = [users |-> List(initialUsers), videos |-> Absent,
             completions |-> [u \in WatchUsers \cup {AdminId} |->
                                 IF u = "u1" THEN List(<<1>>) ELSE Absent],
             progress |-> [u \in WatchUsers \cup {AdminId} |-> Absent]]
    /\ procs = [p \in Procs |-> IdleProc]
    /\ faults = 0
    /\ legal = {SessionCatalog}

NextCatalog ==
    \/ \E d \in VideoInputs, now \in Clock : AddVideo("admin", d, now)
    \/ AddVideoOnSuccess("admin")
    \/ AddVideoOnError("admin")
    \/ \E v \in EditIds, patch \in VideoPatches : UpdateVideo("admin", v, patch)
    \/ UpdateVideoGetOnSuccess("admin")
    \/ UpdateVideoGetOnError("admin")
    \/ UpdateVideoPutOnSuccess("admin")
    \/ UpdateVideoPutOnError("admin")
    \/ GetVideos("viewer", "u1")
    \/ \E p \in {"viewer", "admin"} : GetVideosOnSuccess(p)
    \/ \E p \in {"viewer", "admin"} : GetVideosOnError(p)
    \/ \E i \in DOMAIN txs : TxComplete(i)
    \/ \E i \in DOMAIN txs : TxAbortOnCommit(i)
    \/ OpenDBOnSuccess
    \/ OpenDBOnError

SpecCatalog == InitCatalog /\ [][NextCatalog]_vars

----------------------------------------------------------------------------
(* Reads of any catalog: the order of getVideos *)

\* uploadedAt values.
Stamps == 1 .. 3

\* Every catalog over Ids: each id is missing or uploaded at one of Stamps.
Catalogs ==
    {{Video(i, "user", "published", {}, f[i]) : i \in {k \in Ids : f[k] # 0}} :
        f \in [Ids -> Stamps \cup {0}]}

InitSort ==
    /\ db = 0
    /\ openQ = <<>>
    /\ nOpens = 0
    /\ store \in Catalogs
    /\ txs = <<>>
    /\ ls = [users |-> List(initialUsers), videos |-> Absent,
             completions |-> [u \in WatchUsers |->
                                 IF u = "u1" THEN List(<<1>>) ELSE Absent],
             progress |-> [u \in WatchUsers |-> Absent]]
    /\ procs = [p \in Procs |-> IdleProc]
    /\ faults = 0
    /\ legal = {store}

NextSort ==
    \/ \E u \in {"u1", NoUser} : GetVideos("viewer", u)
    \/ GetVideosOnSuccess("viewer")
    \/ GetVideosOnError("viewer")
    \/ \E i \in DOMAIN txs : TxComplete(i)
    \/ OpenDBOnSuccess
    \/ OpenDBOnError

SpecSort == InitSort /\ [][NextSort]_vars

----------------------------------------------------------------------------
(* deleteVideo, and the reads of the per-user records that follow it *)

DeleteVideo(p, videoId) ==
    /\ CanCall(p)
    /\ openDB(p, [NewCall(p, "deleteVideo") EXCEPT !.ids = <<videoId>>])
    /\ UNCHANGED <<store, faults, legal>>

\* request.onsuccess of store.delete: deleteVideo resolves, before the
\* transaction commits.
DeleteVideoOnSuccess(p) ==
    \E i \in DOMAIN txs :
        /\ Ready(i) /\ Mine(i, p, "delete") /\ HeadReq(i).kind = "delete"
        /\ procs[p].op = "deleteVideo" /\ procs[p].pc = "await_delete"
        /\ txs' = [txs EXCEPT ![i] = Executed(@)]
        /\ procs' = [procs EXCEPT ![p] = Resolve(@, <<>>)]
        /\ UNCHANGED <<db, openQ, nOpens, store, ls, faults, legal>>

\* request.onerror of store.delete: deleteVideo rejects and the transaction
\* aborts.
DeleteVideoOnError(p) ==
    \E i \in DOMAIN txs :
        /\ Ready(i) /\ Mine(i, p, "delete") /\ HeadReq(i).kind = "delete"
        /\ procs[p].op = "deleteVideo" /\ procs[p].pc = "await_delete"
        /\ faults < MaxFaults
        /\ faults' = faults + 1
        /\ txs' = RemoveAt(txs, i)
        /\ procs' = [procs EXCEPT ![p] =
                        [Reject(@, "RequestError") EXCEPT !.txAborted = TRUE]]
        /\ UNCHANGED <<db, openQ, nOpens, store, ls, legal>>

\* getAllCompletions: the completion list of every student of the user
\* table ([] for a value that is not an array); only getUsers may write.
getAllCompletions(l, outcome) ==
    LET g == getUsers(l, outcome)
        students == {g.val[k].id : k \in {j \in DOMAIN g.val : g.val[j].type = "student"}}
        completions(id) == GetFromStorage(GetItem(g.ls, getCompletionsKey(id)), List(<<>>))
    IN IF g.err # "" THEN [val |-> <<>>, ls |-> g.ls, err |-> g.err, failed |-> g.failed]
       ELSE [val |-> [id \in students |->
                        IF IsArray(completions(id)) THEN completions(id).val ELSE <<>>],
             ls |-> g.ls, err |-> "", failed |-> <<>>]

\* users.forEach(user => allProgress[user.id] = getProgressForUser(user.id));
\* `outcome` is the outcome of the first write a reset makes.
RECURSIVE ProgressOfUsers(_, _, _)
ProgressOfUsers(l, users, outcome) ==
    IF users = <<>> THEN [val |-> <<>>, ls |-> l, err |-> "", failed |-> <<>>]
    ELSE LET g == getProgressForUser(l, Head(users).id, outcome)
             rest == ProgressOfUsers(g.ls, Tail(users), outcome)
         IN IF g.err # "" THEN [g EXCEPT !.val = <<>>]
            ELSE IF rest.err # "" THEN rest
            ELSE [rest EXCEPT !.val = (Head(users).id :> g.val.val) @@ @]

getAllProgress(l, outcome) ==
    LET g == getUsers(l, outcome)
    IN IF g.err # "" THEN [g EXCEPT !.val = <<>>]
       ELSE ProgressOfUsers(g.ls, g.val, outcome)

\* A write is reached only by a reset of a value of the wrong shape.
ResetReached(l) ==
    \/ ~IsArray(GetFromStorage(l.users, List(<<>>)))
    \/ \E u \in DOMAIN l.progress :
          GetFromStorage(l.progress[u], Map(<<>>)).kind # "map"

GetAllCompletions(p, o1) ==
    /\ CanOp(p) /\ Reached(o1, "ok")
    /\ LET g == getAllCompletions(ls, o1)
       IN Finish(p, NewSyncCall(p, "getAllCompletions", <<>>),
                 g.ls, g.err, <<g.val>>, g.failed)

GetAllProgress(p, o1) ==
    /\ CanOp(p) /\ (ResetReached(ls) \/ o1 = "ok")
    /\ LET g == getAllProgress(ls, o1)
       IN Finish(p, NewSyncCall(p, "getAllProgress", <<>>),
                 g.ls, g.err, <<g.val>>, g.failed)

\* Video 1 is marked complete and partly watched by u1; both users have
\* watched video 2.
DeleteLs ==
    [users |-> List(initialUsers), videos |-> Absent,
     completions |-> [u \in WatchUsers |->
                         IF u = "u1" THEN List(<<1, 2>>) ELSE List(<<2>>)],
     progress |-> [u \in WatchUsers |->
                      IF u = "u1"
                      THEN Map(Upsert(Upsert(<<>>, 1, VideoProgress(5, 10)),
                                      2, VideoProgress(10, 10)))
                      ELSE Map(Upsert(<<>>, 2, VideoProgress(10, 10)))]]

InitDelete ==
    /\ db = 0
    /\ openQ = <<>>
    /\ nOpens = 0
    /\ store = SessionCatalog
    /\ txs = <<>>
    /\ ls = DeleteLs
    /\ procs = [p \in Procs |-> IdleProc]
    /\ faults = 0
    /\ legal = {SessionCatalog}

\* The deletions tried: of the video the users have records for, of a
\* missing one, of both catalog records at once, of none.
DeleteIds == {1, 3}
DeleteLists == {<<>>, <<1, 2>>, <<3>>}

NextDelete ==
    \/ \E v \in DeleteIds : DeleteVideo("admin", v)
    \/ DeleteVideoOnSuccess("admin")
    \/ DeleteVideoOnError("admin")
    \/ \E ids \in DeleteLists : DeleteMultipleVideos("admin", ids)
    \/ DeleteOnSuccess("admin")
    \/ DeleteOnError("admin")
    \/ GetVideos("viewer", "u1")
    \/ GetVideosOnSuccess("viewer")
    \/ GetVideosOnError("viewer")
    \/ \E o1 \in SetItemOutcomes : GetProgressForUser("student", "u1", o1)
    \/ \E o1 \in SetItemOutcomes : GetAllCompletions("student", o1)
    \/ \E o1 \in SetItemOutcomes : GetAllProgress("student", o1)
    \/ \E i \in DOMAIN txs : TxComplete(i)
    \/ \E i \in DOMAIN txs : TxAbortOnCommit(i)
    \/ OpenDBOnSuccess
    \/ OpenDBOnError

SpecDelete == InitDelete /\ [][NextDelete]_vars

----------------------------------------------------------------------------
(* Edits of single records: updateVideo by the admin, updateUserProfile by
   the signed-in student *)

\* updatedData of updateUserProfile (Partial<User>): a new email, a new id.
UserPatches == {[email |-> "new@x"], [id |-> UserIdAt(1)]}

NextEdits ==
    \/ \E v \in EditIds, patch \in VideoPatches : UpdateVideo("admin", v, patch)
    \/ UpdateVideoGetOnSuccess("admin")
    \/ UpdateVideoGetOnError("admin")
    \/ UpdateVideoPutOnSuccess("admin")
    \/ UpdateVideoPutOnError("admin")
    \/ \E u \in AllUserIds, d \in UserPatches, o1, o2 \in SetItemOutcomes :
          UpdateUserProfile("student", u, d, o1, o2)
    \/ \E i \in DOMAIN txs : TxComplete(i)
    \/ \E i \in DOMAIN txs : TxAbortOnCommit(i)
    \/ OpenDBOnSuccess
    \/ OpenDBOnError

SpecEdits == InitCatalog /\ [][NextEdits]_vars

----------------------------------------------------------------------------
(* resetVideos *)

ResetVideos(p) ==
    /\ CanCall(p)
    /\ openDB(p, NewCall(p, "resetVideos"))
    /\ UNCHANGED <<store, faults, legal>>

\* clearRequest.onsuccess: the initial videos are added in the same
\* transaction and the promise is tied to oncomplete / onerror.
ResetClearOnSuccess(p) ==
    \E i \in DOMAIN txs :
        /\ Ready(i) /\ Mine(i, p, "batch") /\ HeadReq(i).kind = "clear"
        /\ procs[p].op = "resetVideos" /\ procs[p].pc = "await_clear"
        /\ txs' = [txs EXCEPT ![i] = [Executed(@) EXCEPT !.reqs = ResetAdds]]
        /\ procs' = [procs EXCEPT ![p].pc = "await_complete"]
        /\ UNCHANGED <<db, openQ, nOpens, store, ls, faults, legal>>

\* clearRequest.onerror: resetVideos rejects and the transaction aborts.
ResetClearOnError(p) ==
    \E i \in DOMAIN txs :
        /\ Ready(i) /\ Mine(i, p, "batch") /\ HeadReq(i).kind = "clear"
        /\ procs[p].op = "resetVideos" /\ procs[p].pc = "await_clear"
        /\ faults < MaxFaults
        /\ faults' = faults + 1
        /\ txs' = RemoveAt(txs, i)
        /\ procs' = [procs EXCEPT ![p] =
                        [Reject(@, "RequestError") EXCEPT !.txAborted = TRUE]]
        /\ UNCHANGED <<db, openQ, nOpens, store, ls, legal>>

\* An add of the reseed succeeds; it has no handler of its own.
ResetAddOnSuccess(p) ==
    \E i \in DOMAIN txs :
        /\ Ready(i) /\ Mine(i, p, "batch") /\ HeadReq(i).kind = "add"
        /\ procs[p].op = "resetVideos" /\ procs[p].pc = "await_complete"
        /\ ~Fails(HeadReq(i), View(txs[i]))
        /\ txs' = [txs EXCEPT ![i] = Executed(@)]
        /\ UNCHANGED <<db, openQ, nOpens, store, ls, procs, faults, legal>>

\* An add of the reseed fails: the error reaches transaction.onerror,
\* resetVideos rejects and the transaction aborts.
ResetAddOnError(p) ==
    \E i \in DOMAIN txs :
        /\ Ready(i) /\ Mine(i, p, "batch") /\ HeadReq(i).kind = "add"
        /\ procs[p].op = "resetVideos" /\ procs[p].pc = "await_complete"
        /\ LET dup == Fails(HeadReq(i), View(txs[i]))
           IN /\ dup \/ faults < MaxFaults
              /\ faults' = IF dup THEN faults ELSE faults + 1
              /\ procs' = [procs EXCEPT ![p] =
                              [Reject(@, IF dup THEN "ConstraintError"
                                         ELSE "RequestError")
                                  EXCEPT !.txAborted = TRUE]]
        /\ txs' = RemoveAt(txs, i)
        /\ UNCHANGED <<db, openQ, nOpens, store, ls, legal>>

\* The catalogs reset: empty, the initial one, one edited in earlier
\* sessions, and one with an uploaded video beside edited initial ones.
ResetCatalogs ==
    {{}, Range(initialVideos), SessionCatalog,
     SessionCatalog \cup {Video(3, "user", "draft", {}, 3)},
     {Video(3, "user", "draft", {}, 3)}}

InitReset ==
    /\ db = 0
    /\ openQ = <<>>
    /\ nOpens = 0
    /\ store \in ResetCatalogs
    /\ txs = <<>>
    /\ ls = DeleteLs
    /\ procs = [p \in Procs |-> IdleProc]
    /\ faults = 0
    /\ legal = {store}

NextReset ==
    \/ ResetVideos("admin")
    \/ ResetClearOnSuccess("admin")
    \/ ResetClearOnError("admin")
    \/ ResetAddOnSuccess("admin")
    \/ ResetAddOnError("admin")
    \/ \E u \in {"u1", NoUser} : GetVideos("viewer", u)
    \/ GetVideosOnSuccess("viewer")
    \/ GetVideosOnError("viewer")
    \/ \E i \in DOMAIN txs : TxComplete(i)
    \/ \E i \in DOMAIN txs : TxAbortOnCommit(i)
    \/ OpenDBOnSuccess
    \/ OpenDBOnError

SpecReset == InitReset /\ [][NextReset]_vars

----------------------------------------------------------------------------
(* Two flows of one signed-in user: the video list's completion toggles and
   the player's progress reports *)

\* Each flow works on a video of its own, so that what a flow wrote last
\* is still what the store must hold for that video.
VideoOf(p) == IF p = "student" THEN 1 ELSE 2

NextFlows ==
    \/ \E p \in {"student", "viewer"}, c \in BOOLEAN, o2 \in SetItemOutcomes :
          UpdateVideoCompletion(p, "u1", VideoOf(p), c, o2)
    \/ \E p \in {"student", "viewer"}, sec \in Seconds, d \in Durations,
          o1, o2 \in SetItemOutcomes :
             UpdateVideoProgress(p, "u1", VideoOf(p), sec, d, o1, o2)

SpecFlows == InitDelete /\ [][NextFlows]_vars

----------------------------------------------------------------------------
(* Two admin sessions editing one record *)

\* The record both sessions edit, and the patches they send.
RaceId == 1
RacePatches ==
    {[status |-> "published"], [status |-> "draft", uploadedAt |-> 3],
     [tags |-> {"t9"}]}

Editors == {"admin", "admin2"}

NextRace ==
    \/ \E p \in Editors, patch \in RacePatches : UpdateVideo(p, RaceId, patch)
    \/ \E p \in Editors : UpdateVideoGetOnSuccess(p)
    \/ \E p \in Editors : UpdateVideoGetOnError(p)
    \/ \E p \in Editors : UpdateVideoPutOnSuccess(p)
    \/ \E p \in Editors : UpdateVideoPutOnError(p)
    \/ \E i \in DOMAIN txs : TxComplete(i)
    \/ \E i \in DOMAIN txs : TxAbortOnCommit(i)
    \/ OpenDBOnSuccess
    \/ OpenDBOnError

SpecRace == InitCatalog /\ [][NextRace]_vars


----------------------------------------------------------------------------
(* The startup effect run twice: two initDB calls under way together *)

\* The two runs of App's effect, which React.StrictMode mounts twice; the
\* second run starts while the first run's initDB is pending.
Effects == {"app", "app2"}

\* An empty Record Store and no legacy video data.
InitTwice ==
    /\ db = 0
    /\ openQ = <<>>
    /\ nOpens = 0
    /\ store = {}
    /\ txs = <<>>
    /\ \E u \in {Absent, List(initialUsers)} :
          ls = [users |-> u, videos |-> Absent,
                completions |-> [x \in UserIds |-> Absent],
                progress |-> [x \in UserIds |-> Absent]]
    /\ procs = [p \in Procs |-> IdleProc]
    /\ faults = 0
    /\ legal = {}

NextTwice ==
    \/ \E p \in Effects : procs[p].calls = 0 /\ InitDB(p)
    \/ \E p \in Effects : InitCountOnSuccess(p)
    \/ \E p \in Effects : InitCountOnError(p)
    \/ \E p \in Effects : InitPostCountOnSuccess(p)
    \/ \E p \in Effects : InitPostCountOnError(p)
    \/ SeedAddOnSuccess
    \/ SeedAddOnError
    \/ \E i \in DOMAIN txs : TxComplete(i)
    \/ \E i \in DOMAIN txs : TxAbortOnCommit(i)
    \/ OpenDBOnSuccess
    \/ OpenDBOnError

SpecTwice == InitTwice /\ [][NextTwice]_vars

----------------------------------------------------------------------------
(* Properties of the user table, under SpecUsers *)

Adm == procs["admin"]

\* The emails of the table value t, lower-cased, in table order.
LowerEmails(t) == [k \in DOMAIN t.val |-> ToLowerCase(t.val[k].email)]

\* C11: registering an email that equals an existing user's email ignoring
\* case fails with 'Email already exists', and the persisted user table is
\* the one before the attempt.
C11_DuplicateEmailRejected ==
    (Adm.op = "registerStudent" /\ IsArray(Adm.lsPre.users)
        /\ ToLowerCase(Adm.arg.email) \in Range(LowerEmails(Adm.lsPre.users)))
        => /\ Adm.out = "rejected"
           /\ Adm.err = "Email already exists"
           /\ ls.users = Adm.lsPre.users

\* C11 witness: a rejected registration whose email differs from the
\* existing user's email in case only.
C11_Witness ==
    /\ Adm.op = "registerStudent" /\ IsArray(Adm.lsPre.users)
    /\ Adm.arg.email = "Student@X"
    /\ \E u \in Range(Adm.lsPre.users.val) : u.email = "student@x"
    /\ \A u \in Range(Adm.lsPre.users.val) : u.email # "Student@X"
    /\ Adm.out = "rejected" /\ Adm.err = "Email already exists"
    /\ ls.users = Adm.lsPre.users

\* C12: uniqueness. No two users of the user table have the same email
\* compared case-insensitively, and no two records of the catalog have the
\* same id.
C12_Uniqueness ==
    /\ IsArray(ls.users) =>
          \A i, j \in DOMAIN ls.users.val :
              LowerEmails(ls.users)[i] = LowerEmails(ls.users)[j] => i = j
    /\ \A x, y \in store : x.id = y.id => x = y

\* C13: no User value returned by authenticateUser, registerStudent,
\* updateUserProfile or getUsers carries a password field.
C13_NoPasswordReturned ==
    (Adm.out = "resolved"
        /\ Adm.op \in {"authenticateUser", "registerStudent",
                       "updateUserProfile", "getUsers"})
        => \A u \in Range(Adm.val) : "password" \notin DOMAIN u

----------------------------------------------------------------------------
(* Properties of the Scalar Store reads and writes *)

Stu == procs["student"]
Vw == procs["viewer"]

\* A stored value that is unparseable text or has the wrong shape for a key
\* that holds an array.
MalformedList(item) == item.kind \in {"text", "json", "map"}

\* The same for a key that holds a plain object.
MalformedMap(item) == item.kind \in {"text", "json", "list"}

\* C14: self-healing. A read of a key that holds a malformed value returns
\* the default, and afterwards the store holds that default under the key:
\* getUsers for the users key, getProgressForUser for a progress key, and
\* getVideos(userId) for a completions key (no record is flagged completed
\* and the key holds the empty list). Checked under SpecReads, where nothing
\* but a read writes a key.
C14_SelfHealing ==
    /\ (Stu.op = "getUsers" /\ Stu.out = "resolved" /\ MalformedList(Stu.lsPre.users))
          => /\ Stu.val \in {<<>>, initialUsers}
             /\ ls.users = List(Stu.val)
    /\ (Stu.op = "getProgressForUser" /\ Stu.out = "resolved"
          /\ MalformedMap(Stu.lsPre.progress[Stu.arg.userId]))
          => /\ Stu.val = <<Map(<<>>)>>
             /\ ls.progress[Stu.arg.userId] = Map(<<>>)
    /\ (Vw.op = "getVideos" /\ Vw.out = "resolved" /\ Vw.user # NoUser)
          => /\ ~MalformedList(ls.completions[Vw.user])
             /\ ls.completions[Vw.user] # List(<<1>>) /\ ls.completions[Vw.user] # List(<<2>>)
                   => \A k \in DOMAIN Vw.val : ~Vw.val[k].completed

QuotaNames == {"QuotaExceededError", "NS_ERROR_DOM_QUOTA_REACHED"}

\* C15: a write that the medium rejects ends the operation with an error, the
\* quota message for a capacity rejection and the error itself otherwise;
\* the key holds what it held before that write, and an operation called on
\* well-formed keys leaves the whole store as it was.
C15_WriteFailureSurfaced ==
    Stu.thrown # <<>>
        => /\ Stu.out = "rejected"
           /\ Stu.thrown[1] \in QuotaNames
                 => Stu.err = "Storage quota exceeded. Please clear some space."
           /\ Stu.thrown[1] \notin QuotaNames => Stu.err = Stu.thrown[1]
           /\ WellFormed(Stu.lsPre) => ls = Stu.lsPre
           /\ \/ ls = Stu.lsPre
              \/ ls = [Stu.lsPre EXCEPT !.users = List(initialUsers)]
              \/ \E u \in WatchUsers : ls = [Stu.lsPre EXCEPT !.progress[u] = Map(<<>>)]

\* C15 witness: updateVideoProgress on well-formed keys ends with the quota
\* error and the store is as before; so does a changePassword.
C15_Witness ==
    /\ Stu.op = "updateVideoProgress" /\ Stu.thrown = <<"QuotaExceededError">>
    /\ WellFormed(Stu.lsPre) /\ Stu.lsPre.progress["u1"].kind = "map"
    /\ Stu.out = "rejected"
    /\ Stu.err = "Storage quota exceeded. Please clear some space."
    /\ ls = Stu.lsPre

\* The ids of a stored completion list (none when the key is absent).
CompletionSet(item) == IF IsArray(item) THEN Range(item.val) ELSE {}

\* C19: toggleCompletion flips membership. After a call for a listed video
\* by a signed-in user whose key held a list (or nothing), the video's id is
\* in the persisted Completion Set exactly when it was not before the call,
\* the other ids are unchanged and the list holds no id twice.
C19_ToggleFlips ==
    (Stu.op = "toggleVideoCompletion" /\ Stu.out = "resolved" /\ Stu.arg.listed
        /\ Stu.arg.userId # NoUser
        /\ Stu.lsPre.completions[Stu.arg.userId].kind \in {"absent", "list"})
        => LET before == CompletionSet(Stu.lsPre.completions[Stu.arg.userId])
               now == ls.completions[Stu.arg.userId]
               v == Stu.arg.videoId
           IN /\ IsArray(now)
              /\ v \in Range(now.val) <=> v \notin before
              /\ Range(now.val) \ {v} = before \ {v}
              /\ \A i, j \in DOMAIN now.val : now.val[i] = now.val[j] => i = j

\* C20: updateVideoProgress upserts exactly one entry. Afterwards the user's
\* Progress map maps videoId to {progress, duration}, its other entries are
\* the ones it had, and every other key of the Scalar Store and the catalog
\* are unchanged.
C20_ProgressUpsert ==
    (Stu.op = "updateVideoProgress" /\ Stu.out = "resolved")
        => LET u == Stu.arg.userId
               v == Stu.arg.videoId
               old == Stu.lsPre.progress[u]
               now == ls.progress[u]
           IN /\ now.kind = "map"
              /\ v \in DOMAIN now.val /\ now.val[v] = Stu.arg.entry
              /\ DOMAIN now.val \ {v} = IF old.kind = "map" THEN DOMAIN old.val \ {v} ELSE {}
              /\ \A k \in DOMAIN now.val \ {v} : now.val[k] = old.val[k]
              /\ \A w \in WatchUsers \ {u} : ls.progress[w] = Stu.lsPre.progress[w]
              /\ ls.completions = Stu.lsPre.completions
              /\ ls.users = Stu.lsPre.users /\ ls.videos = Stu.lsPre.videos
              /\ store = SessionCatalog

\* C20 witness: an entry for video 2 added beside user u1's entry for video
\* 1, which keeps its value.
C20_Witness ==
    /\ Stu.op = "updateVideoProgress" /\ Stu.out = "resolved"
    /\ Stu.arg.userId = "u1" /\ Stu.arg.videoId = 2
    /\ Stu.lsPre.progress["u1"] = Map(Upsert(<<>>, 1, VideoProgress(9, 10)))
    /\ ls.progress["u1"] =
          Map(Upsert(Upsert(<<>>, 1, VideoProgress(9, 10)), 2, Stu.arg.entry))
    /\ ls.progress["u2"] = Stu.lsPre.progress["u2"]


----------------------------------------------------------------------------
(* Properties of the catalog, under SpecCatalog *)

\* The entries of a returned list that carry the id i.
Entries(videos, i) == {k \in DOMAIN videos : videos[k].id = i}

\* C16: once addVideo(data) has resolved with newVideo, the getVideos that
\* follows returns exactly one entry with newVideo's id, and its fields are
\* those of data.
C16_AddVideoRoundTrip ==
    (Adm.op = "getVideos" /\ Adm.out = "resolved" /\ Adm.arg # <<>>)
        => LET hits == Entries(Adm.val, Adm.arg.newVideo.id)
           IN /\ Cardinality(hits) = 1
              /\ \A k \in hits :
                    Strip(Adm.val[k]) =
                        Strip(WithId(Adm.arg.videoData, VideoIdAt(Adm.arg.now)))

\* Descending by uploadedAt, records of one timestamp in key order (the
\* order in which getAll iterates the store).
DescStable(videos) ==
    \A i, j \in DOMAIN videos :
        i < j => \/ videos[i].uploadedAt > videos[j].uploadedAt
                 \/ /\ videos[i].uploadedAt = videos[j].uploadedAt
                    /\ videos[i].id < videos[j].id

HasTie(videos) ==
    \E i, j \in DOMAIN videos :
        i < j /\ videos[i].uploadedAt = videos[j].uploadedAt

\* C17: every list getVideos returns, with or without a userId, is ordered
\* by upload timestamp descending, and records of equal timestamp are in the
\* order in which the store iterates them.
C17_SortedDescStable ==
    (Vw.op = "getVideos" /\ Vw.out = "resolved")
        => /\ DescStable(Vw.val)
           /\ {Strip(Vw.val[k]) : k \in DOMAIN Vw.val} = Vw.pre
           /\ Len(Vw.val) = Cardinality(Vw.pre)

C17_Witness ==
    /\ Vw.op = "getVideos" /\ Vw.out = "resolved" /\ Vw.user = "u1"
    /\ Len(Vw.val) = 3 /\ HasTie(Vw.val)
    /\ Vw.val[1].uploadedAt > Vw.val[3].uploadedAt

\* C18: every record getVideos(U) returns has completed true exactly when
\* its id is in U's completion set, and no record in the object store
\* carries a completed field.
C18_CompletedDerivedNeverStored ==
    /\ \A p \in {"viewer", "admin"} :
          (procs[p].op = "getVideos" /\ procs[p].out = "resolved"
              /\ procs[p].user # NoUser)
             => \A k \in DOMAIN procs[p].val :
                   procs[p].val[k].completed =
                      (procs[p].val[k].id \in
                         CompletionSet(ls.completions[procs[p].user]))
    /\ \A r \in store : "completed" \notin DOMAIN r

----------------------------------------------------------------------------
(* Properties of deletion, under SpecDelete *)

\* The only rejections of a read: the injected failures of openDB and of
\* the getAll request.
StorageFailures == {"RequestError", "Error opening database."}

\* C21: deleteVideo and deleteMultipleVideos leave every completion list and
\* progress map as they were (video 1 stays in u1's completion list when it
\* is deleted), and the reads that follow return: getVideos(U) rejects only
\* on a storage failure and lists the remaining records with their derived
\* flags, and getProgressForUser, getAllCompletions and getAllProgress
\* never throw and return the stored values.
C21_DeletionKeepsUserRecords ==
    /\ ls = DeleteLs
    /\ (Vw.op = "getVideos" /\ Vw.out = "rejected") => Vw.err \in StorageFailures
    /\ (Vw.op = "getVideos" /\ Vw.out = "resolved")
          => \A k \in DOMAIN Vw.val :
                Vw.val[k].completed = (Vw.val[k].id \in {1, 2})
    /\ Stu.out # "rejected"
    /\ (Stu.op = "getProgressForUser" /\ Stu.out = "resolved")
          => Stu.val = <<DeleteLs.progress["u1"]>>
    /\ (Stu.op = "getAllCompletions" /\ Stu.out = "resolved")
          => Stu.val = <<[u \in {"u1"} |-> <<1, 2>>]>>
    /\ (Stu.op = "getAllProgress" /\ Stu.out = "resolved")
          => Stu.val = <<[u \in {"u1"} |-> DeleteLs.progress["u1"].val]>>

\* C21 witness: video 1 has been deleted and the deletion committed, u1's
\* list still holds its id, and a getVideos(u1) called after the deletion
\* and a getAllProgress have returned.
C21_Witness ==
    /\ Adm.op \in {"deleteVideo", "deleteMultipleVideos"} /\ Adm.out = "resolved"
    /\ 1 \in Range(Adm.ids) /\ txs = <<>> /\ 1 \notin Keys(store)
    /\ 1 \in CompletionSet(ls.completions["u1"])
    /\ Vw.op = "getVideos" /\ Vw.out = "resolved" /\ 1 \notin Keys(Vw.pre)
    /\ Stu.op = "getAllProgress" /\ Stu.out = "resolved"

\* The record of catalog cat stored under id i, as a set.
Under(cat, i) == {r \in cat : r.id = i}

\* No transaction of the call flow p is in is left.
Over(p) == \A i \in DOMAIN txs : ~(txs[i].owner = p /\ txs[i].call = procs[p].calls)

\* C22: updateVideo(id, patch) on a missing id returns null and leaves the
\* catalog as it was; on an existing id it returns the stored record merged
\* with the patch, and the catalog then holds exactly that record under id
\* and the other records as they were.
C22_UpdateVideo ==
    (Adm.op = "updateVideo" /\ Adm.out = "resolved" /\ Over("admin"))
        => LET id == Adm.arg.videoId
               old == Under(Adm.pre, id)
           IN IF old = {}
              THEN Adm.val = <<>> /\ store = Adm.pre
              ELSE /\ \A r \in old :
                         Adm.val = <<WithId(Merge(r, Adm.arg.updatedData),
                                            Merge(r, Adm.arg.updatedData).id)>>
                   /\ Under(store, id) = Range(Adm.val)
                   /\ store \ Under(store, id) = Adm.pre \ old

----------------------------------------------------------------------------
(* Properties of single-record edits, under SpecEdits *)

\* The ids of the user table value t, in table order.
IdsOf(t) == [k \in DOMAIN t.val |-> t.val[k].id]

\* C30: edits preserve identity. An updateVideo(id, patch) that is over
\* leaves the set of ids of the catalog as it was and changes no record
\* other than the one under id; updateUserProfile leaves the ids of the user
\* table as they were.
C30_EditsPreserveIdentity ==
    /\ (Adm.op = "updateVideo" /\ Adm.out # "pending" /\ Over("admin"))
          => /\ Keys(store) = Keys(Adm.pre)
             /\ \A r \in Adm.pre : r.id # Adm.arg.videoId => r \in store
    /\ (Stu.op = "updateUserProfile" /\ IsArray(Stu.lsPre.users) /\ IsArray(ls.users))
          => IdsOf(ls.users) = IdsOf(Stu.lsPre.users)

----------------------------------------------------------------------------
(* Properties of resetVideos, under SpecReset *)

\* C23: once resetVideos has resolved, the catalog is exactly the initial
\* dataset, whatever it held before, and the user table, the completion
\* lists and the progress maps are as they were; a getVideos called after
\* that returns the initial records.
C23_ResetRestoresInitial ==
    (Adm.op = "resetVideos" /\ Adm.out = "resolved")
        => /\ store = Range(initialVideos)
           /\ ls = DeleteLs
           /\ (Vw.op = "getVideos" /\ Vw.out = "resolved"
                  /\ Vw.pre = Range(initialVideos) /\ Vw.quiet)
                 => Observed("viewer") = Range(initialVideos)

\* C23 witness: a catalog with an uploaded video and edited initial videos
\* has been reset.
C23_Witness ==
    /\ Adm.op = "resetVideos" /\ Adm.out = "resolved"
    /\ Video(3, "user", "draft", {}, 3) \in Adm.pre
    /\ Video(1, "user", "draft", {}, 2) \in Adm.pre
    /\ store = Range(initialVideos)
    /\ Vw.op = "getVideos" /\ Vw.out = "resolved" /\ Len(Vw.val) = 2
       /\ 3 \notin Keys(Vw.pre)

----------------------------------------------------------------------------
(* Properties of the batch updates, under Spec *)

\* C24: once addTagsToMultipleVideos(ids, tags) is over, with no storage
\* failure and no other writer, every listed record of the catalog has its
\* prior tags and the new ones (a set, so without duplicates; the same
\* call again would change nothing), and every other record is as it was.
C24_AddTagsUnion ==
    (Adm.op = "addTagsToMultipleVideos" /\ Adm.pc \in {"done", "await_complete"}
        /\ Adm.quiet /\ faults = 0 /\ txs = <<>>)
        => /\ Keys(store) = Keys(Adm.pre)
           /\ \A r \in Adm.pre :
                 IF r.id \in Range(Adm.ids)
                 THEN [r EXCEPT !.tags = @ \cup Range(Adm.newTags)] \in store
                 ELSE r \in store

\* C27: batch updates terminate. A pending updateMultipleVideosStatus or
\* addTagsToMultipleVideos always has an event to come that one of its
\* handlers receives: its open request, the getAll of getRawVideos, or the
\* completion of its readwrite transaction, which is still live when
\* oncomplete is attached.
C27_BatchUpdatesTerminate ==
    (Adm.op \in {"updateMultipleVideosStatus", "addTagsToMultipleVideos"}
        /\ Adm.out = "pending")
        => \/ \E k \in DOMAIN openQ : openQ[k].p = "admin"
           \/ Adm.pc = "await_getRaw" /\ Live("admin", Adm.calls, "read")
           \/ Adm.pc = "await_complete" /\ Live("admin", Adm.calls, "batch")

----------------------------------------------------------------------------
(* Properties of interleaved flows, under SpecFlows *)

\* The entry of the progress map of u1 in storage l for the video of flow p.
Entry(l, p) ==
    IF VideoOf(p) \in DOMAIN l.progress["u1"].val
    THEN <<l.progress["u1"].val[VideoOf(p)]>> ELSE <<>>

\* C25: no update of a completion list or progress map is lost. Whatever
\* the interleaving of the two flows' calls for user u1, after a call that
\* returned the store reflects it: the video a flow marked last is in the
\* list exactly when it marked it complete, the entry a flow reported last
\* is in the map, and a failed write leaves the flow's video as it was.
C25_NoLostUpdate ==
    \A p \in {"student", "viewer"} :
        /\ (procs[p].op = "updateVideoCompletion" /\ procs[p].out = "resolved")
              => (VideoOf(p) \in CompletionSet(ls.completions["u1"]))
                    = procs[p].arg.isCompleted
        /\ (procs[p].op = "updateVideoProgress" /\ procs[p].out = "resolved")
              => /\ VideoOf(p) \in DOMAIN ls.progress["u1"].val
                 /\ ls.progress["u1"].val[VideoOf(p)] = procs[p].arg.entry
        /\ procs[p].out = "rejected"
              => /\ (VideoOf(p) \in CompletionSet(ls.completions["u1"]))
                    = (VideoOf(p) \in
                          CompletionSet(procs[p].lsPre.completions["u1"]))
                 /\ Entry(ls, p) = Entry(procs[p].lsPre, p)

\* C25 witness: the student's flow made a call, the other flow then took
\* video 2 out of the list, and the student's second call took video 1 out:
\* both removals are there.
C25_Witness ==
    /\ Stu.op = "updateVideoCompletion" /\ Stu.out = "resolved"
    /\ Vw.op = "updateVideoCompletion" /\ Vw.out = "resolved"
    /\ Stu.calls = 2 /\ Vw.calls = 1
    /\ ~Stu.arg.isCompleted /\ ~Vw.arg.isCompleted
    /\ Vw.lsPre.completions["u1"] = List(<<1, 2>>)
    /\ Stu.lsPre.completions["u1"] = List(<<1>>)
    /\ ls.completions["u1"] = List(<<>>)

----------------------------------------------------------------------------
(* Properties of racing edits, under SpecRace *)

Adm2 == procs["admin2"]

\* The record r with patch a, then patch b, merged into it.
Both(r, a, b) == WithId(Merge(Merge(r, a), b), r.id)

\* C26: two updateVideo calls racing on one record lose no update. Once the
\* first calls of both sessions have resolved and their transactions are
\* gone, the record holds the patch of both, merged in the order in which
\* the transactions ran, and it is the record the second of them returned.
C26_NoLostEdit ==
    (/\ Adm.op = "updateVideo" /\ Adm.out = "resolved" /\ Adm.calls = 1
     /\ Adm2.op = "updateVideo" /\ Adm2.out = "resolved" /\ Adm2.calls = 1
     /\ txs = <<>>)
        => \E r \in Under(SessionCatalog, RaceId) :
              \/ /\ Under(store, RaceId)
                       = {Both(r, Adm.arg.updatedData, Adm2.arg.updatedData)}
                 /\ Under(store, RaceId) = Range(Adm2.val)
              \/ /\ Under(store, RaceId)
                       = {Both(r, Adm2.arg.updatedData, Adm.arg.updatedData)}
                 /\ Under(store, RaceId) = Range(Adm.val)

----------------------------------------------------------------------------
(* Properties of the migration's writes, under SpecStartup *)

\* C28: migration loses no data. In a first run of initDB that read a
\* non-empty legacy list, once the legacy key is gone and the migration's
\* write transaction is over, every record the list leaves under its id is in
\* the Record Store: no record is in neither store.
C28_MigrationLosesNoData ==
    (/\ App.op = "initDB" /\ App.calls = 1 /\ HasLegacyList(App.keyPre)
     /\ ls.videos = Absent
     /\ \A i \in DOMAIN txs : txs[i].tag # "migrate")
        => \A r \in LastWins(App.keyPre.val) : r \in store

----------------------------------------------------------------------------
(* Properties of two initDB calls under way together, under SpecTwice *)

\* A pending initDB of flow p has an event to come that one of its handlers
\* receives.
HasEventToCome(p) ==
    \/ \E k \in DOMAIN openQ : openQ[k].p = p
    \/ \E i \in DOMAIN txs :
          /\ txs[i].owner = p /\ txs[i].call = procs[p].calls
          /\ txs[i].tag \in {"count", "migrate", "postcount"}
          /\ txs[i].reqs # <<>>

\* Both runs of the effect have called initDB and both calls have settled.
BothSettled == \A p \in Effects : procs[p].op = "initDB" /\ procs[p].out # "pending"

\* C29: two initDB calls under way together on an empty store with no legacy
\* data both complete (a pending call always has an event to come), and once
\* both have resolved and their transactions are over the catalog is exactly
\* the initial dataset, each record once.
C29_ConcurrentInit ==
    /\ (\A q \in Effects : procs[q].op = "initDB")
          => \A p \in Effects : procs[p].out = "pending" => HasEventToCome(p)
    /\ (BothSettled /\ txs = <<>> /\ \A p \in Effects : procs[p].out = "resolved")
          => /\ store = Range(initialVideos)
             /\ Cardinality(store) = Len(initialVideos)
             /\ \A a, b \in store : a.id = b.id => a = b

====
